---- MODULE Spec2Model ----
(***************************************************************************)
(* Print preparation pipeline of etsy_listing_creator:                     *)
(*   tools/image_processing.py  (ImageProcessingTool)                      *)
(*   tools/print_prep.py        (PrintPreparationTool)                     *)
(* An image is a record of its pixel dimensions; the compositor is         *)
(* modelled by the geometry it computes (crop box, resize target, paste    *)
(* position).  Python float expressions of the form int(x * (a / b)) and   *)
(* int(x / (a / b)) are modelled with IEEE-754 double rounding, because    *)
(* the truncation can land one below the exact quotient.                   *)
(***************************************************************************)
EXTENDS Integers, Sequences, FiniteSets, TLC

\* ------------------------------------------------------------------------
\* Bounds of the model
\* ------------------------------------------------------------------------
\* source images on the grid have width, height in {600*k : k \in 1..MaxSrcK}
MaxSrcK == 4
\* scale arguments tried in direct upscale_image calls: 1..MaxScale
MaxScale == 4
\* number of concurrent prepare_image_for_print calls
MaxCalls == 2
\* seconds that can pass while the concurrent calls run
MaxClock == 1
\* answers the user gives to one approval question of ReplicateTool._run
MaxAnswers == 3

\* ------------------------------------------------------------------------
\* Size catalogs (Python dicts keep insertion order: a sequence of entries)
\* ------------------------------------------------------------------------
PORTRAIT_PRINT_SIZES ==
  << [name |-> "4x6",   width |-> 1200, height |-> 1800],
     [name |-> "5x7",   width |-> 1500, height |-> 2100],
     [name |-> "8x10",  width |-> 2400, height |-> 3000],
     [name |-> "11x14", width |-> 3300, height |-> 4200],
     [name |-> "16x20", width |-> 4800, height |-> 6000] >>

LANDSCAPE_PRINT_SIZES ==
  << [name |-> "6x4",   width |-> 1800, height |-> 1200],
     [name |-> "7x5",   width |-> 2100, height |-> 1500],
     [name |-> "10x8",  width |-> 3000, height |-> 2400],
     [name |-> "14x11", width |-> 4200, height |-> 3300],
     [name |-> "20x16", width |-> 6000, height |-> 4800] >>

\* the class attributes of PrintPreparationTool (print_prep.py)
PPT_PORTRAIT_PRINT_SIZES ==
  << [name |-> "4x6",   width |-> 1200, height |-> 1800],
     [name |-> "5x7",   width |-> 1500, height |-> 2100],
     [name |-> "8x10",  width |-> 2400, height |-> 3000],
     [name |-> "11x14", width |-> 3300, height |-> 4200],
     [name |-> "16x20", width |-> 4800, height |-> 6000] >>

\* variant of PPT_LANDSCAPE_PRINT_SIZES: the height of "10x8" is mistyped
PPT_LANDSCAPE_PRINT_SIZES_mistyped ==
  << [name |-> "6x4",   width |-> 1800, height |-> 1200],
     [name |-> "7x5",   width |-> 2100, height |-> 1500],
     [name |-> "10x8",  width |-> 3000, height |-> 2000],
     [name |-> "14x11", width |-> 4200, height |-> 3300],
     [name |-> "20x16", width |-> 6000, height |-> 4800] >>

PPT_LANDSCAPE_PRINT_SIZES ==
  << [name |-> "6x4",   width |-> 1800, height |-> 1200],
     [name |-> "7x5",   width |-> 2100, height |-> 1500],
     [name |-> "10x8",  width |-> 3000, height |-> 2400],
     [name |-> "14x11", width |-> 4200, height |-> 3300],
     [name |-> "20x16", width |-> 6000, height |-> 4800] >>

\* variant of get_print_sizes_for_aspect_ratio: only "portrait" selects the
\* portrait table, every other value the landscape table
get_print_sizes_for_aspect_ratio_landscape_default(aspect_ratio) ==
  IF aspect_ratio = "portrait" THEN PORTRAIT_PRINT_SIZES
  ELSE LANDSCAPE_PRINT_SIZES

\* get_print_sizes_for_aspect_ratio: "landscape" selects the landscape
\* table, every other value (None included) the portrait table
get_print_sizes_for_aspect_ratio(aspect_ratio) ==
  IF aspect_ratio = "landscape" THEN LANDSCAPE_PRINT_SIZES
  ELSE PORTRAIT_PRINT_SIZES

\* get_print_sizes_for_aspect_ratio of PrintPreparationTool
PPT_get_print_sizes_for_aspect_ratio(aspect_ratio) ==
  IF aspect_ratio = "landscape" THEN PPT_LANDSCAPE_PRINT_SIZES
  ELSE PPT_PORTRAIT_PRINT_SIZES

\* print_sizes.keys(), in order
Keys(print_sizes) == [i \in 1..Len(print_sizes) |-> print_sizes[i].name]

\* size_name in print_sizes
HasKey(print_sizes, size_name) ==
  \E i \in 1..Len(print_sizes) : print_sizes[i].name = size_name

\* print_sizes[size_name]
Lookup(print_sizes, size_name) ==
  print_sizes[CHOOSE i \in 1..Len(print_sizes) : print_sizes[i].name = size_name]

\* ------------------------------------------------------------------------
\* Integer helpers
\* ------------------------------------------------------------------------
Max(a, b) == IF a >= b THEN a ELSE b

RECURSIVE Pow2(_)
Pow2(n) == IF n <= 0 THEN 1 ELSE 2 * Pow2(n - 1)

\* (2^s) mod b
RECURSIVE PowMod2(_, _)
PowMod2(s, b) == IF s <= 0 THEN 1 % b ELSE (2 * PowMod2(s - 1, b)) % b

\* floor(log2(a / b)) for positive integers a, b
RECURSIVE Log2Up(_, _, _)
Log2Up(a, b, k) == IF b * Pow2(k + 1) <= a THEN Log2Up(a, b, k + 1) ELSE k
RECURSIVE Log2Down(_, _, _)
Log2Down(a, b, k) == IF a * Pow2(k) < b THEN Log2Down(a, b, k + 1) ELSE 0 - k
FloorLog2(a, b) == IF a >= b THEN Log2Up(a, b, 0) ELSE Log2Down(a, b, 0)

\* the e with 2^e < n <= 2^(e+1), for n >= 1
RECURSIVE BinadeBelow(_, _)
BinadeBelow(n, e) == IF Pow2(e + 1) < n THEN BinadeBelow(n, e + 1) ELSE e

\* lhs > rhs * 2^d, d of either sign
GreaterPow2(lhs, rhs, d) ==
  IF d >= 0 THEN lhs > rhs * Pow2(d) ELSE lhs * Pow2(0 - d) > rhs

\* ------------------------------------------------------------------------
\* IEEE-754 double arithmetic of the Python expressions
\* ------------------------------------------------------------------------
\* remainder of the 53-bit quotient of a / b: with E = floor(log2(a/b)) and
\* s = 52 - E,  a * 2^s = m * b + rem;  the double a / b is m / 2^s when
\* 2*rem < b (rounded down) and (m+1) / 2^s when 2*rem > b (rounded up)
QuotientRem(a, b) == ((a % b) * PowMod2(52 - FloorLog2(a, b), b)) % b

\* int(x * (a / b)) in Python, for positive integers x, a, b.
\* When x*a/b is not an integer the truncation is the exact floor.  When it
\* is an integer N and a / b was rounded down, the product is N - x*rem/
\* (b*2^s), which rounds to the double below N when it is more than half a
\* unit in the last place away from N; the truncation is then N - 1.
TruncMul(x, a, b) ==
  LET exact == (x * a) \div b
      rem   == QuotientRem(a, b)
      d     == BinadeBelow(exact, 0 - 1) - FloorLog2(a, b) - 1
  IN  IF (x * a) % b # 0 THEN exact
      ELSE IF rem = 0 \/ 2 * rem > b THEN exact
      ELSE IF GreaterPow2(x * rem, b, d) THEN exact - 1
      ELSE exact

\* int(x / (a / b)) in Python, for positive integers x, a, b.
\* The symmetric case: when x*b/a is an integer N and a / b was rounded up,
\* the quotient falls below N and may round to the double below N.
TruncDiv(x, a, b) ==
  LET exact == (x * b) \div a
      rem   == QuotientRem(a, b)
      d     == BinadeBelow(exact, 0 - 1) - FloorLog2(a, b) - 1
  IN  IF (x * b) % a # 0 THEN exact
      ELSE IF rem = 0 \/ 2 * rem < b THEN exact
      ELSE IF GreaterPow2(exact * (b - rem), a, d) THEN exact - 1
      ELSE exact

\* a / b > c / d on doubles: the two quotients are correctly rounded and
\* differ by at least 1/(b*d), far more than one unit in the last place,
\* so the comparison is the exact one
AspectGreater(a, b, c, d) == a * d > c * b

\* ------------------------------------------------------------------------
\* Values
\* ------------------------------------------------------------------------
\* a decoded image: its pixel size, and whether it is the generated
\* placeholder rather than the caller's picture
Img(w, h, ph) == [width |-> w, height |-> h, placeholder |-> ph]
NoImage == Img(0, 0, FALSE)

\* an exception: its Python type and the parts of its message
Err(t, m) == [type |-> t, message |-> m]
NoError == Err("", <<>>)

\* Image.new("RGB", (width, height), color=(255, 255, 255))
White == <<255, 255, 255>>
Canvas(w, h) == [width |-> w, height |-> h, color |-> White]
NoCanvas == [width |-> 0, height |-> 0, color |-> <<0, 0, 0>>]

\* variant of Composite: the resized image is returned, not the canvas copy
CompositeOfImage(cv, scaled, crop, pasted, at) ==
  [width |-> pasted[1], height |-> pasted[2], background |-> cv.color,
   scaled |-> scaled, crop |-> crop, pasted |-> pasted, at |-> at,
   ok |-> pasted[1] >= 1 /\ pasted[2] >= 1
          /\ crop[3] > crop[1] /\ crop[4] > crop[2]
          /\ scaled[1] >= 1 /\ scaled[2] >= 1,
   enhance |-> <<>>]

\* the composited image: a copy of the canvas (size, background colour)
\* on which the region [at, at + pasted) was overwritten; scaled is the
\* size of the image the crop box was taken from, crop the box
\* (left, upper, right, lower); ok is FALSE when a resize target is empty
Composite(cv, scaled, crop, pasted, at) ==
  [width |-> cv.width, height |-> cv.height, background |-> cv.color,
   scaled |-> scaled, crop |-> crop, pasted |-> pasted, at |-> at,
   ok |-> pasted[1] >= 1 /\ pasted[2] >= 1
          /\ crop[3] > crop[1] /\ crop[4] > crop[2]
          /\ scaled[1] >= 1 /\ scaled[2] >= 1,
   enhance |-> <<>>]
NoComposite == Composite(NoCanvas, <<0, 0>>, <<0, 0, 0, 0>>, <<0, 0>>, <<0, 0>>)

\* ------------------------------------------------------------------------
\* ImageProcessingTool
\* ------------------------------------------------------------------------
\* _create_fallback_image: a 1200 x 1800 gradient written to
\* output/temp/fallback_image.png
FallbackWidth == 1200
FallbackHeight == 1800
IPT_create_fallback_image == Img(FallbackWidth, FallbackHeight, TRUE)

\* variant of IPT_open_temp_copy: a missing file is an error
IPT_open_temp_copy_raising(file) ==
  IF ~file.exists \/ ~file.readable THEN [ok |-> FALSE, image |-> NoImage]
  ELSE [ok |-> TRUE, image |-> Img(file.width, file.height, FALSE)]

\* _create_temp_copy followed by Image.open of the returned path: a missing
\* file is replaced by the fallback image; an existing file is copied, and
\* opening the copy fails when the file is not a decodable image
IPT_open_temp_copy(file) ==
  IF ~file.exists THEN [ok |-> TRUE, image |-> IPT_create_fallback_image]
  ELSE IF ~file.readable THEN [ok |-> FALSE, image |-> NoImage]
  ELSE [ok |-> TRUE, image |-> Img(file.width, file.height, FALSE)]

\* variant of IPT_upscale_image: only the width is multiplied by scale
IPT_upscale_image_width_only(file, scale) ==
  LET opened == IPT_open_temp_copy(file)
  IN  IF opened.ok /\ scale >= 1
      THEN Img(opened.image.width * scale, opened.image.height,
               opened.image.placeholder)
      ELSE IPT_create_fallback_image

\* upscale_image (realesrgan_path is None): the temp copy is opened and
\* resized to scale times its size; if that raises, the fallback image is
\* opened and returned as it is
IPT_upscale_image(file, scale) ==
  LET opened == IPT_open_temp_copy(file)
  IN  IF opened.ok /\ scale >= 1
      THEN Img(opened.image.width * scale, opened.image.height * scale,
               opened.image.placeholder)
      ELSE IPT_create_fallback_image

\* variant of IPT_scale: the ratio is rounded to the nearest integer
IPT_scale_rounded(img_width, img_height, target_width, target_height) ==
  Max((2 * target_width + img_width) \div (2 * img_width),
      (2 * target_height + img_height) \div (2 * img_height))

\* the scale factor of prepare_image_for_print:
\* int(max(target_width / img_width, target_height / img_height));
\* both quotients are correctly rounded, so the truncation is the floor
IPT_scale(img_width, img_height, target_width, target_height) ==
  Max(target_width \div img_width, target_height \div img_height)

\* whether prepare_image_for_print calls the upscaler
IPT_needs_upscale(img_width, img_height, target_width, target_height) ==
  img_width < target_width \/ img_height < target_height

\* variant of IPT_center_image_on_canvas: the crop offset is not halved
IPT_center_image_on_canvas_one_sided(image, canvas, fill_canvas) ==
  LET iw == image.width
      ih == image.height
      cw == canvas.width
      ch == canvas.height
      wider == AspectGreater(iw, ih, cw, ch)
  IN  IF fill_canvas
      THEN IF wider
           THEN LET new_width == TruncMul(ih, cw, ch)
                    left == iw - new_width
                IN  Composite(canvas, <<iw, ih>>,
                              <<left, 0, left + new_width, ih>>,
                              <<cw, ch>>, <<0, 0>>)
           ELSE LET new_height == TruncDiv(iw, cw, ch)
                    top == ih - new_height
                IN  Composite(canvas, <<iw, ih>>,
                              <<0, top, iw, top + new_height>>,
                              <<cw, ch>>, <<0, 0>>)
      ELSE IF wider
           THEN LET new_height == TruncDiv(cw, iw, ih)
                    top == (ch - new_height) \div 2
                IN  Composite(canvas, <<iw, ih>>, <<0, 0, iw, ih>>,
                              <<cw, new_height>>, <<0, top>>)
           ELSE LET new_width == TruncMul(ch, iw, ih)
                    left == (cw - new_width) \div 2
                IN  Composite(canvas, <<iw, ih>>, <<0, 0, iw, ih>>,
                              <<new_width, ch>>, <<left, 0>>)

\* center_image_on_canvas
IPT_center_image_on_canvas(image, canvas, fill_canvas) ==
  LET iw == image.width
      ih == image.height
      cw == canvas.width
      ch == canvas.height
      wider == AspectGreater(iw, ih, cw, ch)
  IN  IF fill_canvas
      THEN IF wider
           THEN LET new_width == TruncMul(ih, cw, ch)
                    left == (iw - new_width) \div 2
                IN  Composite(canvas, <<iw, ih>>,
                              <<left, 0, left + new_width, ih>>,
                              <<cw, ch>>, <<0, 0>>)
           ELSE LET new_height == TruncDiv(iw, cw, ch)
                    top == (ih - new_height) \div 2
                IN  Composite(canvas, <<iw, ih>>,
                              <<0, top, iw, top + new_height>>,
                              <<cw, ch>>, <<0, 0>>)
      ELSE IF wider
           THEN LET new_height == TruncDiv(cw, iw, ih)
                    top == (ch - new_height) \div 2
                IN  Composite(canvas, <<iw, ih>>, <<0, 0, iw, ih>>,
                              <<cw, new_height>>, <<0, top>>)
           ELSE LET new_width == TruncMul(ch, iw, ih)
                    left == (cw - new_width) \div 2
                IN  Composite(canvas, <<iw, ih>>, <<0, 0, iw, ih>>,
                              <<new_width, ch>>, <<left, 0>>)

\* variant of IPT_enhance_image_for_print: preserve_colors is ignored
IPT_enhance_image_for_print_vibrant(composite, preserve_colors) ==
  [composite EXCEPT !.enhance =
     @ \o << <<"sharpen", 100>>, <<"contrast", 120>>,
             <<"color", 110>>, <<"brightness", 105>> >>]

\* enhance_image_for_print: the filters applied, in order
IPT_enhance_image_for_print(composite, preserve_colors) ==
  [composite EXCEPT !.enhance =
     @ \o (IF preserve_colors
           THEN << <<"sharpen", 100>>, <<"contrast", 105>> >>
           ELSE << <<"sharpen", 100>>, <<"contrast", 120>>,
                   <<"color", 110>>, <<"brightness", 105>> >>)]

\* ------------------------------------------------------------------------
\* PrintPreparationTool
\* ------------------------------------------------------------------------
\* upscale_image: a file that cannot be copied or decoded raises inside the
\* try block; the handler builds a 1024 x 1024 image and then calls
\* ImageDraw.Draw, a name print_prep.py never imports, so the NameError is
\* caught by the inner handler and RuntimeError is raised
PPT_upscale_image(file, scale) ==
  IF file.exists /\ file.readable /\ scale >= 1
  THEN [ok |-> TRUE,
        image |-> Img(file.width * scale, file.height * scale, FALSE),
        error |-> NoError]
  ELSE [ok |-> FALSE, image |-> NoImage,
        error |-> Err("RuntimeError",
                      <<"Cannot create any image for processing">>)]

\* the default scale of upscale_image, used by prepare_image_for_print
DefaultScale == 4

\* what a call of upscale_image does, in order: the methods it calls (and
\* the warnings they print) and the filters it applies to the resized image
IPT_upscale_image_steps(file, scale) ==
  <<"upscale_image">>
  \o (IF ~file.exists THEN <<"_create_fallback_image">> ELSE <<>>)
  \o (IF IPT_open_temp_copy(file).ok /\ scale >= 1
      THEN <<"ImageEnhance.Sharpness", "ImageEnhance.Contrast">>
      ELSE <<"_create_fallback_image">>)

PPT_upscale_image_steps(file, scale) ==
  <<"upscale_image">>
  \o (IF PPT_upscale_image(file, scale).ok
      THEN <<"ImageFilter.SHARPEN", "ImageEnhance.Contrast",
             "ImageEnhance.Color">>
      ELSE <<>>)

\* _create_temp_copy and Image.open at the start of prepare_image_for_print
IPT_open_steps(file) ==
  <<"_create_temp_copy">>
  \o (IF ~file.exists THEN <<"_create_fallback_image">> ELSE <<>>)
  \o <<"Image.open">>

\* Image.thumbnail(size) of Pillow: round_aspect picks, of floor and ceil,
\* the size whose aspect ratio is nearest to the image's; on an exact tie
\* the float keys decide, modelled by the parameter tie
RoundAspectX(W, H, y, tie) ==
  LET f == (y * W) \div H
      kf == y * W - f * H
      kc == (f + 1) * H - y * W
  IN  Max(IF (y * W) % H = 0 \/ kf < kc THEN f
          ELSE IF kc < kf THEN f + 1
          ELSE IF tie = "ceil" THEN f + 1 ELSE f, 1)

RoundAspectY(W, H, x, tie) ==
  LET f == (x * H) \div W
      kf == (x * H - W * f) * (f + 1)
      kc == (W * (f + 1) - x * H) * f
  IN  Max(IF (x * H) % W = 0 \/ f = 0 \/ kf < kc THEN f
          ELSE IF kc < kf THEN f + 1
          ELSE IF tie = "ceil" THEN f + 1 ELSE f, 1)

Thumbnail(W, H, x, y, tie) ==
  IF x >= W /\ y >= H THEN <<W, H>>
  ELSE IF x * H >= W * y THEN <<RoundAspectX(W, H, y, tie), y>>
  ELSE <<x, RoundAspectY(W, H, x, tie)>>

\* variant of PPT_center_image_on_canvas: the thumbnail is pasted at (0, 0)
PPT_center_image_on_canvas_at_origin(image, canvas, fill_canvas, tie) ==
  LET iw == image.width
      ih == image.height
      cw == canvas.width
      ch == canvas.height
  IN  IF fill_canvas
      THEN IF AspectGreater(iw, ih, cw, ch)
           THEN LET new_width == TruncMul(iw, ch, ih)
                    new_height == ch
                    left == (new_width - cw) \div 2
                    right == left + cw
                    cropped == <<right - left, new_height>>
                IN  Composite(canvas, <<new_width, new_height>>,
                              <<left, 0, right, new_height>>,
                              IF cropped # <<cw, ch>> THEN <<cw, ch>>
                              ELSE cropped, <<0, 0>>)
           ELSE LET new_width == cw
                    new_height == TruncMul(ih, cw, iw)
                    top == (new_height - ch) \div 2
                    bottom == top + ch
                    cropped == <<new_width, bottom - top>>
                IN  Composite(canvas, <<new_width, new_height>>,
                              <<0, top, new_width, bottom>>,
                              IF cropped # <<cw, ch>> THEN <<cw, ch>>
                              ELSE cropped, <<0, 0>>)
      ELSE LET t == Thumbnail(iw, ih, cw, ch, tie)
           IN  Composite(canvas, <<iw, ih>>, <<0, 0, iw, ih>>, t, <<0, 0>>)

\* center_image_on_canvas
PPT_center_image_on_canvas(image, canvas, fill_canvas, tie) ==
  LET iw == image.width
      ih == image.height
      cw == canvas.width
      ch == canvas.height
  IN  IF fill_canvas
      THEN IF AspectGreater(iw, ih, cw, ch)
           THEN LET new_width == TruncMul(iw, ch, ih)
                    new_height == ch
                    left == (new_width - cw) \div 2
                    right == left + cw
                    cropped == <<right - left, new_height>>
                IN  Composite(canvas, <<new_width, new_height>>,
                              <<left, 0, right, new_height>>,
                              IF cropped # <<cw, ch>> THEN <<cw, ch>>
                              ELSE cropped, <<0, 0>>)
           ELSE LET new_width == cw
                    new_height == TruncMul(ih, cw, iw)
                    top == (new_height - ch) \div 2
                    bottom == top + ch
                    cropped == <<new_width, bottom - top>>
                IN  Composite(canvas, <<new_width, new_height>>,
                              <<0, top, new_width, bottom>>,
                              IF cropped # <<cw, ch>> THEN <<cw, ch>>
                              ELSE cropped, <<0, 0>>)
      ELSE LET t == Thumbnail(iw, ih, cw, ch, tie)
               x == (cw - t[1]) \div 2
               y == (ch - t[2]) \div 2
           IN  Composite(canvas, <<iw, ih>>, <<0, 0, iw, ih>>, t, <<x, y>>)

\* the image and canvas objects the caller passed, as they are after
\* center_image_on_canvas returned.  ImageProcessingTool pastes on
\* canvas.copy() and only rebinds its local name image to the new objects
\* crop and resize return.
IPT_arguments_after_center(image, canvas, fill_canvas) ==
  [image |-> image, canvas |-> canvas]

\* variant of PPT_arguments_after_center: thumbnail, which resizes in
\* place, is called on the image argument itself
PPT_arguments_after_center_in_place(image, canvas, fill_canvas, tie) ==
  IF fill_canvas THEN [image |-> image, canvas |-> canvas]
  ELSE LET t == Thumbnail(image.width, image.height,
                          canvas.width, canvas.height, tie)
       IN  [image |-> [image EXCEPT !.width = t[1], !.height = t[2]],
            canvas |-> canvas]

\* PrintPreparationTool pastes on canvas.copy() and resizes, crops and
\* thumbnails image_copy = image.copy()
PPT_arguments_after_center(image, canvas, fill_canvas, tie) ==
  [image |-> image, canvas |-> canvas]

\* ------------------------------------------------------------------------
\* Inputs
\* ------------------------------------------------------------------------
IPT == "ImageProcessingTool"
PPT == "PrintPreparationTool"
Tools == {IPT, PPT}

\* self.get_print_sizes_for_aspect_ratio(aspect_ratio) on a tool object
PrintSizesOf(t, aspect_ratio) ==
  IF t = IPT THEN get_print_sizes_for_aspect_ratio(aspect_ratio)
  ELSE PPT_get_print_sizes_for_aspect_ratio(aspect_ratio)

\* a file on disk: whether it exists, whether it decodes as an image, and
\* the pixel size of the picture in it
File(e, r, w, h) == [exists |-> e, readable |-> r, width |-> w, height |-> h]
MissingFile == File(FALSE, FALSE, 0, 0)
CorruptFile == File(TRUE, FALSE, 0, 0)

\* sizes of the source pictures: a grid, and sizes that exercise the
\* truncated scale factor, equal aspect ratios and the float rounding
SourceSizes ==
  ({600 * k : k \in 1..MaxSrcK} \X {600 * k : k \in 1..MaxSrcK})
  \cup { <<600, 800>>, <<700, 1000>>, <<896, 1344>>, <<2400, 1300>>,
         <<1024, 1024>>, <<4800, 6000>>, <<6000, 4800>>, <<6300, 6100>> }

SourceFiles ==
  {MissingFile, CorruptFile}
  \cup {File(TRUE, TRUE, sz[1], sz[2]) : sz \in SourceSizes}

\* size_name arguments: every catalog key and one name in no catalog
SizeNames ==
  {PORTRAIT_PRINT_SIZES[i].name : i \in 1..Len(PORTRAIT_PRINT_SIZES)}
  \cup {LANDSCAPE_PRINT_SIZES[i].name : i \in 1..Len(LANDSCAPE_PRINT_SIZES)}
  \cup {"9x9"}

\* aspect_ratio arguments; "None" stands for Python's None
AspectRatios == {"None", "portrait", "landscape", "square"}

\* size_name.replace('x', '_')
ReplaceX(size_name) ==
  CASE size_name = "4x6" -> "4_6"     [] size_name = "5x7" -> "5_7"
    [] size_name = "8x10" -> "8_10"   [] size_name = "11x14" -> "11_14"
    [] size_name = "16x20" -> "16_20" [] size_name = "6x4" -> "6_4"
    [] size_name = "7x5" -> "7_5"     [] size_name = "10x8" -> "10_8"
    [] size_name = "14x11" -> "14_11" [] size_name = "20x16" -> "20_16"
    [] OTHER -> "9_9"

\* the default output path: output_dir / output_filename
IPT_output_path(size_name) ==
  <<"output/processed_images", "print_", size_name, ".png">>

PPT_output_path(size_name, aspect_ratio, fill_canvas) ==
  <<"output/processed_images", "print_ready_", "source", "_",
    ReplaceX(size_name),
    IF aspect_ratio # "None" THEN "_" \o aspect_ratio ELSE "",
    "_", IF fill_canvas THEN "filled" ELSE "centered", ".png">>

NoPath == <<>>

\* the file _create_temp_copy hands on: the copy, or the fallback image
IPT_temp_file(file) ==
  IF file.exists THEN file
  ELSE File(TRUE, TRUE, FallbackWidth, FallbackHeight)

\* outcome of one prepare_image_for_print call
RetNone == [kind |-> "none", path |-> NoPath, error |-> NoError]
RetPath(p) == [kind |-> "path", path |-> p, error |-> NoError]
RetError(e) == [kind |-> "error", path |-> NoPath, error |-> e]

\* what the caller of the tool gets back
OutNone ==
  [kind |-> "none", path |-> NoPath, paths |-> <<>>, image |-> NoImage,
   error |-> NoError]
OutPath(p) == [OutNone EXCEPT !.kind = "path", !.path = p]
OutList(ps) == [OutNone EXCEPT !.kind = "list", !.paths = ps]
OutImage(i) == [OutNone EXCEPT !.kind = "image", !.image = i]
OutError(e) == [OutNone EXCEPT !.kind = "error", !.error = e]

\* the PNG writer of Pillow stores the dpi argument in the pHYs chunk as
\* pixels per metre: int(dpi / 0.0254 + 0.5)
PngPixelsPerMetre(dpi) == (dpi * 10000 + 127) \div 254

\* variant of Saved: save is called without the dpi argument
SavedWithoutDpi(p, composite) ==
  [path |-> p, width |-> composite.width, height |-> composite.height,
   dpi |-> <<>>, pHYs |-> <<>>, content |-> composite]

\* a saved output file: result.save(output_path, dpi=(300, 300))
Saved(p, composite) ==
  [path |-> p, width |-> composite.width, height |-> composite.height,
   dpi |-> <<300, 300>>,
   pHYs |-> <<PngPixelsPerMetre(300), PngPixelsPerMetre(300)>>,
   content |-> composite]

\* ------------------------------------------------------------------------
\* State
\* ------------------------------------------------------------------------
VARIABLES
  tool,            \* the tool object the calls are made on
  src,             \* the file at image_path
  op,              \* the method the caller invoked
  size_name, aspect_ratio, fill_canvas, preserve_colors,   \* its arguments
  pc,              \* position inside the call
  image,           \* local: image
  scale_arg,       \* scale passed to upscale_image, 0 when it was not called
  target,          \* local: target_width, target_height
  canvas,          \* local: canvas
  result,          \* local: result
  files,           \* the files in output/processed_images
  ret,             \* outcome of the current prepare_image_for_print call
  todo,            \* sizes prepare_all_print_sizes still has to iterate
  output_paths,    \* local of prepare_all_print_sizes
  out,             \* value returned (or exception raised) to the caller
  steps,           \* what the current prepare_image_for_print call did so far
  prev,            \* the calls completed before, and Pillow's tie resolution
  calls,           \* the concurrent prepare_image_for_print calls
  temp,            \* the files in output/temp
  clock,           \* time.time() in whole seconds
  input_data,      \* run: what json.loads made of input_str
  run_pc,          \* run: position inside the call
  run_ret,         \* run: the value run returned
  disk,            \* the files of the client and of the output directory
  listing,         \* FileOrganizerTool: subdirectories of the listing dir
  manifest,        \* FileOrganizerTool._run: local manifest
  manifest_file,   \* FileOrganizerTool: manifest.json as written
  files_to_delete, \* FileOrganizerTool._run: local files_to_delete
  org_pc,          \* FileOrganizerTool: position inside run
  org_todo,        \* FileOrganizerTool: (category, path) pairs to visit
  org_args,        \* FileOrganizerTool: the arguments of the call
  deleted,         \* FileOrganizerTool: originals removed, with content
  org_ret,         \* FileOrganizerTool: the value run returned
  js_pc,           \* JsonSaveTool: position of the call and its client
  js_args,         \* JsonSaveTool._run: data, filename
  js_ret,          \* JsonSaveTool._run: returned path or raised exception
  js_loaded,       \* what the client read back from the saved file
  dm_pc,           \* DynamicMockupTool._run: position inside the call
  dm_args,         \* DynamicMockupTool._run: arguments, files next to the image
  dm_todo,         \* DynamicMockupTool._run: templates still to render
  mockup_paths,    \* DynamicMockupTool._run: local mockup_paths
  successful_templates,  \* DynamicMockupTool._run: local counter
  mockup_current_index,  \* DynamicMockupTool._run: local index
  dm_log,          \* what happened to each template, exceptions caught
  dm_ret,          \* DynamicMockupTool._run: returned list or raised exception
  rp_pc,           \* ReplicateTool._run: position inside the call
  rp_image_path,   \* ReplicateTool._run: local image_path
  rp_n,            \* ReplicateTool: images generated so far
  rp_log,          \* ReplicateTool: the answers given and what followed
  rp_ret           \* ReplicateTool._run: returned path or raised exception

runVars == <<input_data, run_pc, run_ret>>
orgVars == <<listing, manifest, manifest_file, files_to_delete, org_pc,
             org_todo, org_args, deleted, org_ret>>
jsVars == <<js_pc, js_args, js_ret, js_loaded>>
dmVars == <<dm_pc, dm_args, dm_todo, mockup_paths, successful_templates,
            mockup_current_index, dm_log, dm_ret>>
rpVars == <<rp_pc, rp_image_path, rp_n, rp_log, rp_ret>>

\* the state of run and of the tools that are not image tools
toolVars == <<runVars, disk, orgVars, jsVars, dmVars, rpVars>>

\* the state the actions of one tool leave alone (the disk apart)
notRun == <<disk, orgVars, jsVars, dmVars, rpVars>>
notOrg == <<runVars, jsVars, dmVars, rpVars>>
notJson == <<runVars, orgVars, dmVars, rpVars>>
notDm == <<runVars, orgVars, jsVars, rpVars>>
notRp == <<runVars, orgVars, jsVars, dmVars>>

vars == <<tool, src, op, size_name, aspect_ratio, fill_canvas,
          preserve_colors, pc, image, scale_arg, target, canvas, result,
          files, ret, todo, output_paths, out, steps, prev, calls, temp,
          clock, toolVars>>

\* the state only concurrent calls use
parVars == <<calls, temp, clock>>

locals == <<image, scale_arg, target, canvas, result>>
callArgs == <<op, size_name, aspect_ratio, fill_canvas, preserve_colors>>

NoTarget == [width |-> 0, height |-> 0]

\* no call was completed yet, no thumbnail was made yet
NoPrev == [n |-> 0, tie |-> "", out |-> OutNone, files |-> {}]

\* run was not called
NoInput == [type |-> "none", items |-> {}]
NotReturned == [type |-> "none", value |-> <<>>]

RunIdle ==
  /\ input_data = NoInput
  /\ run_pc = "idle"
  /\ run_ret = NotReturned

NoManifest ==
  [timestamp |-> 0, listing_name |-> "", files |-> <<>>, backups |-> {},
   validation |-> <<>>, saved |-> FALSE]

NoArgs == [files |-> <<>>, cleanup |-> TRUE, backup |-> TRUE,
           should_validate |-> TRUE]

\* the FileOrganizerTool object after __init__, before run is called
OrganizerIdle ==
  /\ listing = {}
  /\ manifest = NoManifest
  /\ manifest_file = NoManifest
  /\ files_to_delete = <<>>
  /\ org_pc = "idle"
  /\ org_todo = <<>>
  /\ org_args = NoArgs
  /\ deleted = {}
  /\ org_ret = <<>>

JsNone == [kind |-> "none", type |-> "", message |-> "", path |-> <<>>]

\* the JsonSaveTool object after __init__
JsonIdle ==
  /\ js_pc = "idle"
  /\ js_args = [data |-> <<>>, filename |-> ""]
  /\ js_ret = JsNone
  /\ js_loaded = <<>>

\* the DynamicMockupTool object after __init__
MockupIdle ==
  /\ dm_pc = "idle"
  /\ dm_args = [aspect_ratio |-> "None", template_names |-> <<"None">>,
                additional |-> {}]
  /\ dm_todo = <<>>
  /\ mockup_paths = <<>>
  /\ successful_templates = 0
  /\ mockup_current_index = 0
  /\ dm_log = <<>>
  /\ dm_ret = OutNone

\* the ReplicateTool object after __init__
ReplicateIdle ==
  /\ rp_pc = "idle"
  /\ rp_image_path = NoPath
  /\ rp_n = 0
  /\ rp_log = <<>>
  /\ rp_ret = OutNone

\* the tools that are not image tools were not called
OtherToolsIdle ==
  /\ RunIdle
  /\ disk = {}
  /\ OrganizerIdle
  /\ JsonIdle
  /\ MockupIdle
  /\ ReplicateIdle

Init ==
  /\ tool \in Tools
  /\ src \in SourceFiles
  /\ op = "none"
  /\ size_name = ""
  /\ aspect_ratio = "None"
  /\ fill_canvas = TRUE
  /\ preserve_colors = TRUE
  /\ pc = "idle"
  /\ image = NoImage
  /\ scale_arg = 0
  /\ target = NoTarget
  /\ canvas = NoCanvas
  /\ result = NoComposite
  /\ files = {}
  /\ ret = RetNone
  /\ todo = <<>>
  /\ output_paths = <<>>
  /\ out = OutNone
  /\ steps = <<>>
  /\ prev = NoPrev
  /\ calls = <<>>
  /\ temp = {}
  /\ clock = 0
  /\ OtherToolsIdle

\* ------------------------------------------------------------------------
\* Calls made by the client
\* ------------------------------------------------------------------------
\* preserve_colors is a parameter of ImageProcessingTool only
PreserveChoices == IF tool = IPT THEN BOOLEAN ELSE {TRUE}

\* prepare_image_for_print(image_path, size_name, fill_canvas=...,
\*                         aspect_ratio=..., preserve_colors=...)
CallPrepareImageForPrint ==
  /\ pc = "idle"
  /\ \E sn \in SizeNames, ar \in AspectRatios, fc \in BOOLEAN,
        pcol \in PreserveChoices :
       /\ op' = "prepare_image_for_print"
       /\ size_name' = sn
       /\ aspect_ratio' = ar
       /\ fill_canvas' = fc
       /\ preserve_colors' = pcol
  /\ pc' = "start"
  /\ steps' = <<>>
  /\ UNCHANGED <<parVars, toolVars, tool, src, locals, files, ret, todo, output_paths,
                 out, prev>>

\* prepare_all_print_sizes(image_path, fill_canvas=..., aspect_ratio=...,
\*                         preserve_colors=...): output_paths = [] and the
\* iteration over print_sizes.keys() is set up
CallPrepareAllPrintSizes ==
  /\ pc = "idle"
  /\ \E ar \in AspectRatios, fc \in BOOLEAN, pcol \in PreserveChoices :
       /\ op' = "prepare_all_print_sizes"
       /\ aspect_ratio' = ar
       /\ fill_canvas' = fc
       /\ preserve_colors' = pcol
       /\ todo' = Keys(PrintSizesOf(tool, ar))
  /\ output_paths' = <<>>
  /\ pc' = "loop"
  /\ steps' = <<>>
  /\ UNCHANGED <<parVars, toolVars, tool, src, size_name, locals, files, ret, out,
                 prev>>

\* upscale_image(image_path, scale) called directly
CallUpscaleImage ==
  /\ pc = "idle"
  /\ \E scale \in 1..MaxScale :
       /\ scale_arg' = scale
       /\ IF tool = IPT
          THEN /\ image' = IPT_upscale_image(src, scale)
               /\ out' = OutImage(image')
               /\ steps' = IPT_upscale_image_steps(src, scale)
          ELSE LET u == PPT_upscale_image(src, scale)
               IN  /\ image' = u.image
                   /\ out' = IF u.ok THEN OutImage(u.image)
                             ELSE OutError(u.error)
                   /\ steps' = PPT_upscale_image_steps(src, scale)
  /\ op' = "upscale_image"
  /\ pc' = "done"
  /\ UNCHANGED <<parVars, toolVars, tool, src, size_name, aspect_ratio, fill_canvas,
                 preserve_colors, target, canvas, result, files, ret, todo,
                 output_paths, prev>>

\* ------------------------------------------------------------------------
\* Steps of prepare_image_for_print
\* ------------------------------------------------------------------------
\* variant of InvalidSize: the message does not name the size
InvalidSizeAnonymous(sn) == Err("ValueError", <<"Invalid print size">>)

InvalidSize(sn) == Err("ValueError", <<"Invalid print size: ", sn>>)

\* ImageProcessingTool: temp_path = _create_temp_copy(image_path);
\* image = Image.open(temp_path)
OpenSource ==
  /\ pc = "start"
  /\ tool = IPT
  /\ LET opened == IPT_open_temp_copy(src)
     IN  IF opened.ok
         THEN /\ image' = opened.image
              /\ pc' = "resolve"
              /\ ret' = ret
         ELSE /\ image' = image
              /\ pc' = "returned"
              /\ ret' = RetError(Err("UnidentifiedImageError",
                                     <<"cannot identify image file">>))
  /\ steps' = steps \o IPT_open_steps(src)
  /\ UNCHANGED <<parVars, toolVars, tool, src, callArgs, scale_arg, target, canvas,
                 result, files, todo, output_paths, out, prev>>

\* ImageProcessingTool: look the size up in the selected catalog
ResolveSize ==
  /\ pc = "resolve"
  /\ LET print_sizes == get_print_sizes_for_aspect_ratio(aspect_ratio)
     IN  IF ~HasKey(print_sizes, size_name)
         THEN /\ ret' = RetError(InvalidSize(size_name))
              /\ pc' = "returned"
              /\ target' = target
         ELSE /\ target' = [width |-> Lookup(print_sizes, size_name).width,
                            height |-> Lookup(print_sizes, size_name).height]
              /\ pc' = "upscale"
              /\ ret' = ret
  /\ steps' = Append(steps, "get_print_sizes_for_aspect_ratio")
  /\ UNCHANGED <<parVars, toolVars, tool, src, callArgs, image, scale_arg, canvas,
                 result, files, todo, output_paths, out, prev>>

\* ImageProcessingTool: upscale when the image is smaller than the target.
\* PrintPreparationTool: upscaled_img = self.upscale_image(image_path),
\* the first step of the call.
Upscale ==
  /\ IF tool = IPT
     THEN /\ pc = "upscale"
          /\ IF IPT_needs_upscale(image.width, image.height,
                                  target.width, target.height)
             THEN LET scale == IPT_scale(image.width, image.height,
                                         target.width, target.height)
                  IN  /\ scale_arg' = scale
                      /\ image' = IPT_upscale_image(IPT_temp_file(src), scale)
                      /\ steps' = steps \o IPT_upscale_image_steps(
                                             IPT_temp_file(src), scale)
             ELSE /\ scale_arg' = 0
                  /\ image' = image
                  /\ steps' = steps
          /\ pc' = "canvas"
          /\ ret' = ret
     ELSE /\ pc = "start"
          /\ LET u == PPT_upscale_image(src, DefaultScale)
             IN  /\ scale_arg' = DefaultScale
                 /\ image' = u.image
                 /\ pc' = IF u.ok THEN "canvas" ELSE "returned"
                 /\ ret' = IF u.ok THEN ret ELSE RetError(u.error)
                 /\ steps' = steps \o PPT_upscale_image_steps(src,
                                                              DefaultScale)
  /\ UNCHANGED <<parVars, toolVars, tool, src, callArgs, target, canvas, result, files,
                 todo, output_paths, out, prev>>

\* prepare_print_canvas(size_name, aspect_ratio)
PrepareCanvas ==
  /\ pc = "canvas"
  /\ LET print_sizes == PrintSizesOf(tool, aspect_ratio)
     IN  IF ~HasKey(print_sizes, size_name)
         THEN /\ ret' = RetError(InvalidSize(size_name))
              /\ pc' = "returned"
              /\ canvas' = canvas
         ELSE /\ canvas' = Canvas(Lookup(print_sizes, size_name).width,
                                  Lookup(print_sizes, size_name).height)
              /\ pc' = "compose"
              /\ ret' = ret
  /\ steps' = Append(steps, "prepare_print_canvas")
  /\ UNCHANGED <<parVars, toolVars, tool, src, callArgs, image, scale_arg, target,
                 result, files, todo, output_paths, out, prev>>

\* how Pillow resolves a tie of Image.thumbnail: one fixed way per pair of
\* arguments, so a call repeated with the same arguments meets the same one
TieChoices ==
  IF prev.n >= 1 /\ prev.tie # "" THEN {prev.tie} ELSE {"floor", "ceil"}

\* result = self.center_image_on_canvas(image, canvas, fill_canvas)
Compose ==
  /\ pc = "compose"
  /\ \E tie \in TieChoices :
       LET r == IF tool = IPT
                THEN IPT_center_image_on_canvas(image, canvas, fill_canvas)
                ELSE PPT_center_image_on_canvas(image, canvas, fill_canvas,
                                                tie)
           after == IF tool = IPT
                    THEN IPT_arguments_after_center(image, canvas,
                                                    fill_canvas)
                    ELSE PPT_arguments_after_center(image, canvas,
                                                    fill_canvas, tie)
       IN  /\ image' = after.image
           /\ canvas' = after.canvas
           /\ prev' = IF tool = PPT /\ ~fill_canvas
                      THEN [prev EXCEPT !.tie = tie] ELSE prev
           /\ IF r.ok
              THEN /\ result' = r
                   /\ pc' = IF tool = IPT THEN "enhance" ELSE "save"
                   /\ ret' = ret
              ELSE /\ result' = result
                   /\ pc' = "returned"
                   /\ ret' = RetError(Err("ValueError",
                                          <<"height and width must be > 0">>))
  /\ steps' = Append(steps, "center_image_on_canvas")
  /\ UNCHANGED <<parVars, toolVars, tool, src, callArgs, scale_arg, target, files,
                 todo, output_paths, out>>

\* variant of Enhance: the image is enhanced a second time
EnhanceTwice ==
  /\ pc = "enhance"
  /\ result' = IPT_enhance_image_for_print(
                  IPT_enhance_image_for_print(result, preserve_colors),
                  preserve_colors)
  /\ pc' = "save"
  /\ steps' = steps \o <<"enhance_image_for_print",
                         "enhance_image_for_print">>
  /\ UNCHANGED <<parVars, toolVars, tool, src, callArgs, image, scale_arg, target,
                 canvas, files, ret, todo, output_paths, out, prev>>

\* ImageProcessingTool: result = self.enhance_image_for_print(result, ...)
Enhance ==
  /\ pc = "enhance"
  /\ result' = IPT_enhance_image_for_print(result, preserve_colors)
  /\ pc' = "save"
  /\ steps' = Append(steps, "enhance_image_for_print")
  /\ UNCHANGED <<parVars, toolVars, tool, src, callArgs, image, scale_arg, target,
                 canvas, files, ret, todo, output_paths, out, prev>>

\* variant of Save: a repeated call does not overwrite, it numbers its file
SaveNumbered ==
  /\ pc = "save"
  /\ LET output_path ==
           (IF tool = IPT THEN IPT_output_path(size_name)
            ELSE PPT_output_path(size_name, aspect_ratio, fill_canvas))
           \o (IF prev.n = 0 THEN <<>> ELSE <<"_1">>)
     IN  \E written \in BOOLEAN :
           IF written
           THEN /\ files' = {f \in files : f.path # output_path}
                              \cup {Saved(output_path, result)}
                /\ ret' = RetPath(output_path)
           ELSE /\ files' = files
                /\ ret' = RetError(Err("OSError", <<"cannot write file">>))
  /\ pc' = "returned"
  /\ steps' = Append(steps, "save")
  /\ UNCHANGED <<parVars, toolVars, tool, src, callArgs, locals, todo, output_paths,
                 out, prev>>

\* variant of Save: a failed write is swallowed and the path is returned
SaveUnchecked ==
  /\ pc = "save"
  /\ LET output_path ==
           IF tool = IPT THEN IPT_output_path(size_name)
           ELSE PPT_output_path(size_name, aspect_ratio, fill_canvas)
     IN  \E written \in BOOLEAN :
           IF written
           THEN /\ files' = {f \in files : f.path # output_path}
                              \cup {Saved(output_path, result)}
                /\ ret' = RetPath(output_path)
           ELSE /\ files' = files
                /\ ret' = RetPath(output_path)
  /\ pc' = "returned"
  /\ steps' = Append(steps, "save")
  /\ UNCHANGED <<parVars, toolVars, tool, src, callArgs, locals, todo, output_paths,
                 out, prev>>

\* result.save(output_path, dpi=(300, 300)); writing the file can fail
\* (disk full, permission denied), which raises out of the call
Save ==
  /\ pc = "save"
  /\ LET output_path ==
           IF tool = IPT THEN IPT_output_path(size_name)
           ELSE PPT_output_path(size_name, aspect_ratio, fill_canvas)
     IN  \E written \in BOOLEAN :
           IF written
           THEN /\ files' = {f \in files : f.path # output_path}
                              \cup {Saved(output_path, result)}
                /\ ret' = RetPath(output_path)
           ELSE /\ files' = files
                /\ ret' = RetError(Err("OSError", <<"cannot write file">>))
  /\ pc' = "returned"
  /\ steps' = Append(steps, "save")
  /\ UNCHANGED <<parVars, toolVars, tool, src, callArgs, locals, todo, output_paths,
                 out, prev>>

\* prepare_image_for_print returns its path or re-raises to the caller
ReturnToCaller ==
  /\ pc = "returned"
  /\ op = "prepare_image_for_print"
  /\ out' = IF ret.kind = "path" THEN OutPath(ret.path)
            ELSE OutError(ret.error)
  /\ pc' = "done"
  /\ UNCHANGED <<parVars, toolVars, tool, src, callArgs, locals, files, ret, todo,
                 output_paths, steps, prev>>

\* ------------------------------------------------------------------------
\* Steps of prepare_all_print_sizes
\* ------------------------------------------------------------------------
\* for size_name in print_sizes.keys(): try: self.prepare_image_for_print(
BatchNext ==
  /\ pc = "loop"
  /\ todo # <<>>
  /\ size_name' = Head(todo)
  /\ todo' = Tail(todo)
  /\ image' = NoImage
  /\ scale_arg' = 0
  /\ target' = NoTarget
  /\ canvas' = NoCanvas
  /\ result' = NoComposite
  /\ ret' = RetNone
  /\ pc' = "start"
  /\ steps' = <<>>
  /\ UNCHANGED <<parVars, toolVars, tool, src, op, aspect_ratio, fill_canvas,
                 preserve_colors, files, output_paths, out, prev>>

\* variant of BatchCollect: the per-size exception is not caught
BatchCollectRaising ==
  /\ pc = "returned"
  /\ op = "prepare_all_print_sizes"
  /\ output_paths' = IF ret.kind = "path"
                     THEN Append(output_paths, ret.path)
                     ELSE output_paths
  /\ pc' = IF ret.kind = "path" THEN "loop" ELSE "done"
  /\ out' = IF ret.kind = "path" THEN out ELSE OutError(ret.error)
  /\ UNCHANGED <<parVars, toolVars, tool, src, callArgs, locals, files, ret, todo,
                 steps, prev>>

\* output_paths.append(output_path), or except Exception: continue
BatchCollect ==
  /\ pc = "returned"
  /\ op = "prepare_all_print_sizes"
  /\ output_paths' = IF ret.kind = "path"
                     THEN Append(output_paths, ret.path)
                     ELSE output_paths
  /\ pc' = "loop"
  /\ UNCHANGED <<parVars, toolVars, tool, src, callArgs, locals, files, ret, todo, out,
                 steps, prev>>

\* variant of BatchReturn: an empty result is turned into an exception
BatchReturnRaising ==
  /\ pc = "loop"
  /\ todo = <<>>
  /\ out' = IF output_paths = <<>>
            THEN OutError(Err("NoSizesProcessedError", <<>>))
            ELSE OutList(output_paths)
  /\ pc' = "done"
  /\ UNCHANGED <<parVars, toolVars, tool, src, callArgs, locals, files, ret, todo,
                 output_paths, steps, prev>>

\* return output_paths
BatchReturn ==
  /\ pc = "loop"
  /\ todo = <<>>
  /\ out' = OutList(output_paths)
  /\ pc' = "done"
  /\ UNCHANGED <<parVars, toolVars, tool, src, callArgs, locals, files, ret, todo,
                 output_paths, steps, prev>>

Next ==
  \/ CallPrepareImageForPrint
  \/ CallPrepareAllPrintSizes
  \/ CallUpscaleImage
  \/ OpenSource
  \/ ResolveSize
  \/ Upscale
  \/ PrepareCanvas
  \/ Compose
  \/ Enhance
  \/ Save
  \/ ReturnToCaller
  \/ BatchNext
  \/ BatchCollect
  \/ BatchReturn

Spec == Init /\ [][Next]_vars

\* ------------------------------------------------------------------------
\* The same call made a second time
\* ------------------------------------------------------------------------
\* the client repeats prepare_image_for_print with the arguments of the
\* call that has just ended; what the first call returned and the files it
\* left are remembered
CallAgain ==
  /\ pc = "done"
  /\ op = "prepare_image_for_print"
  /\ prev.n = 0
  /\ prev' = [n |-> 1, tie |-> prev.tie, out |-> out, files |-> files]
  /\ pc' = "start"
  /\ image' = NoImage
  /\ scale_arg' = 0
  /\ target' = NoTarget
  /\ canvas' = NoCanvas
  /\ result' = NoComposite
  /\ ret' = RetNone
  /\ out' = OutNone
  /\ steps' = <<>>
  /\ UNCHANGED <<parVars, toolVars, tool, src, callArgs, files, todo, output_paths>>

NextTwice ==
  \/ Next
  \/ CallAgain

SpecTwice == Init /\ [][NextTwice]_vars

\* ------------------------------------------------------------------------
\* Concurrent prepare_image_for_print calls on one tool object
\* ------------------------------------------------------------------------
\* a path: its directory and the parts of its file name
PathOf(dir, name) == [dir |-> dir, name |-> name]

\* the pictures the concurrent calls are made on: two different pictures
\* with the same file name in two directories, and a third one
ParImagePaths ==
  { PathOf("a", <<"art.png">>), PathOf("b", <<"art.png">>),
    PathOf("a", <<"cat.png">>) }

SourceAt(image_path) ==
  CASE image_path = PathOf("a", <<"art.png">>) -> File(TRUE, TRUE, 600, 800)
    [] image_path = PathOf("b", <<"art.png">>) -> File(TRUE, TRUE, 1200, 1200)
    [] OTHER -> File(TRUE, TRUE, 700, 1000)

\* Path(image_path).stem
Stem(image_path) ==
  IF image_path.name = <<"art.png">> THEN "art" ELSE "cat"

\* the sizes the concurrent calls ask for (aspect_ratio=None, fill_canvas
\* and preserve_colors at their default True)
ParSizeNames == {"4x6", "5x7"}

\* ImageProcessingTool._create_temp_copy:
\* temp_dir / f"temp_{Path(image_path).name}"
IPT_temp_path(image_path) ==
  PathOf("output/temp", <<"temp_">> \o image_path.name)

\* PrintPreparationTool._create_temp_copy:
\* self.temp_dir / f"temp_{timestamp}_{Path(image_path).name}"
PPT_temp_path(image_path, timestamp) ==
  PathOf("output/temp",
         <<"temp_", ToString(timestamp), "_">> \o image_path.name)

\* the output path of a call
ParOutputPath(t, c) ==
  IF t = IPT THEN IPT_output_path(c.size_name)
  ELSE [PPT_output_path(c.size_name, "None", TRUE)
          EXCEPT ![3] = Stem(c.image_path)]

\* the directory output/temp
TempExists(path) == \E f \in temp : f.path = path
TempRead(path) == (CHOOSE f \in temp : f.path = path).file
TempWrite(path, file) ==
  {f \in temp : f.path # path} \cup {[path |-> path, file |-> file]}
TempRemove(path) == {f \in temp : f.path # path}

NoFile == [path |-> NoPath]

\* a call that has not started
NewCall(image_path, sn) ==
  [image_path |-> image_path, size_name |-> sn, pc |-> "copy",
   temp_path |-> PathOf("", <<>>), opened |-> NoImage, image |-> NoImage,
   out |-> OutNone, wrote |-> NoFile]

Procs == 1..MaxCalls

InitPar ==
  /\ tool \in Tools
  /\ src = MissingFile
  /\ op = "none"
  /\ size_name = ""
  /\ aspect_ratio = "None"
  /\ fill_canvas = TRUE
  /\ preserve_colors = TRUE
  /\ pc = "idle"
  /\ image = NoImage
  /\ scale_arg = 0
  /\ target = NoTarget
  /\ canvas = NoCanvas
  /\ result = NoComposite
  /\ files = {}
  /\ ret = RetNone
  /\ todo = <<>>
  /\ output_paths = <<>>
  /\ out = OutNone
  /\ steps = <<>>
  /\ prev = NoPrev
  /\ calls \in [Procs -> {NewCall(ip, sn) : ip \in ParImagePaths,
                                            sn \in ParSizeNames}]
  /\ temp = {}
  /\ clock = 0
  /\ OtherToolsIdle

\* the state of the single sequential call, which concurrent calls leave
seqVars == <<tool, src, op, size_name, aspect_ratio, fill_canvas,
             preserve_colors, pc, image, scale_arg, target, canvas, result,
             ret, todo, output_paths, out, steps, prev>>

\* the state of the two image tools
imageVars == <<seqVars, files, parVars>>

\* the image tools are not called
ImageToolsIdle ==
  /\ tool = IPT
  /\ src = MissingFile
  /\ op = "none"
  /\ size_name = ""
  /\ aspect_ratio = "None"
  /\ fill_canvas = TRUE
  /\ preserve_colors = TRUE
  /\ pc = "idle"
  /\ image = NoImage
  /\ scale_arg = 0
  /\ target = NoTarget
  /\ canvas = NoCanvas
  /\ result = NoComposite
  /\ files = {}
  /\ ret = RetNone
  /\ todo = <<>>
  /\ output_paths = <<>>
  /\ out = OutNone
  /\ steps = <<>>
  /\ prev = NoPrev
  /\ calls = <<>>
  /\ temp = {}
  /\ clock = 0

\* the target size of a call
ParTarget(t, c) == Lookup(PrintSizesOf(t, "None"), c.size_name)

\* _create_temp_copy(image_path): shutil.copy2(image_path, temp_path)
ParCopy(p) ==
  LET c == calls[p]
      temp_path == IF tool = IPT THEN IPT_temp_path(c.image_path)
                   ELSE PPT_temp_path(c.image_path, clock)
  IN  /\ c.pc = "copy"
      /\ temp' = TempWrite(temp_path, SourceAt(c.image_path))
      /\ calls' = [calls EXCEPT ![p].temp_path = temp_path,
                                ![p].pc = "open"]
      /\ UNCHANGED <<seqVars, toolVars, files, clock>>

\* Image.open(temp_path).  ImageProcessingTool reads the size and decides
\* whether to upscale.  PrintPreparationTool resizes by 4; when the file is
\* gone, FileNotFoundError leads to the fallback branch, which raises
\* RuntimeError.
ParOpen(p) ==
  LET c == calls[p]
  IN  /\ c.pc = "open"
      /\ IF tool = IPT
         THEN LET o == IPT_open_temp_copy(TempRead(c.temp_path)).image
                  t == ParTarget(tool, c)
              IN  calls' = [calls EXCEPT
                    ![p].opened = o,
                    ![p].image = o,
                    ![p].pc = IF IPT_needs_upscale(o.width, o.height,
                                                   t.width, t.height)
                              THEN "upscale_copy" ELSE "save"]
         ELSE IF TempExists(c.temp_path)
              THEN LET u == PPT_upscale_image(TempRead(c.temp_path),
                                              DefaultScale)
                   IN  calls' = [calls EXCEPT ![p].opened = u.image,
                                              ![p].image = u.image,
                                              ![p].pc = "remove"]
              ELSE calls' = [calls EXCEPT
                     ![p].pc = "done",
                     ![p].out = OutError(
                                  PPT_upscale_image(MissingFile,
                                                    DefaultScale).error)]
      /\ UNCHANGED <<seqVars, toolVars, files, temp, clock>>

\* ImageProcessingTool: upscale_image(temp_path, scale) makes its own temp
\* copy of the temp copy: temp_temp_<name>
ParUpscaleCopy(p) ==
  LET c == calls[p]
  IN  /\ c.pc = "upscale_copy"
      /\ temp' = TempWrite(IPT_temp_path(c.temp_path), TempRead(c.temp_path))
      /\ calls' = [calls EXCEPT ![p].pc = "upscale_open"]
      /\ UNCHANGED <<seqVars, toolVars, files, clock>>

\* ImageProcessingTool: upscale_image opens that copy and resizes it
ParUpscaleOpen(p) ==
  LET c == calls[p]
      t == ParTarget(tool, c)
      scale == IPT_scale(c.opened.width, c.opened.height, t.width, t.height)
  IN  /\ c.pc = "upscale_open"
      /\ calls' = [calls EXCEPT
           ![p].image = IPT_upscale_image(
                          TempRead(IPT_temp_path(c.temp_path)), scale),
           ![p].pc = "save"]
      /\ UNCHANGED <<seqVars, toolVars, files, temp, clock>>

\* PrintPreparationTool: os.remove(temp_image_path); a failure is only
\* printed
ParRemove(p) ==
  LET c == calls[p]
  IN  /\ c.pc = "remove"
      /\ temp' = TempRemove(c.temp_path)
      /\ calls' = [calls EXCEPT ![p].pc = "save"]
      /\ UNCHANGED <<seqVars, toolVars, files, clock>>

\* the print a call makes of an image: canvas, compositing, enhancement
ParResult(t, c, img) ==
  LET tg == ParTarget(t, c)
      cv == Canvas(tg.width, tg.height)
  IN  IF t = IPT
      THEN IPT_enhance_image_for_print(
             IPT_center_image_on_canvas(img, cv, TRUE), TRUE)
      ELSE PPT_center_image_on_canvas(img, cv, TRUE, "floor")

\* canvas, compositing, enhancement and result.save(output_path, ...)
ParSave(p) ==
  LET c == calls[p]
      output_path == ParOutputPath(tool, c)
      written == Saved(output_path, ParResult(tool, c, c.image))
  IN  /\ c.pc = "save"
      /\ files' = {f \in files : f.path # output_path} \cup {written}
      /\ calls' = [calls EXCEPT ![p].pc = "done",
                                ![p].out = OutPath(output_path),
                                ![p].wrote = written]
      /\ UNCHANGED <<seqVars, toolVars, temp, clock>>

\* a second passes
Tick ==
  /\ clock < MaxClock
  /\ clock' = clock + 1
  /\ UNCHANGED <<seqVars, toolVars, files, calls, temp>>

NextPar ==
  \/ \E p \in Procs : ParCopy(p)
  \/ \E p \in Procs : ParOpen(p)
  \/ \E p \in Procs : ParUpscaleCopy(p)
  \/ \E p \in Procs : ParUpscaleOpen(p)
  \/ \E p \in Procs : ParRemove(p)
  \/ \E p \in Procs : ParSave(p)
  \/ Tick

SpecPar == InitPar /\ [][NextPar]_vars

\* what a call returns and writes when no other call runs beside it
AloneImage(t, c) ==
  LET file == SourceAt(c.image_path)
      tg == ParTarget(t, c)
  IN  IF t = PPT THEN PPT_upscale_image(file, DefaultScale).image
      ELSE IF IPT_needs_upscale(file.width, file.height,
                                tg.width, tg.height)
      THEN IPT_upscale_image(file, IPT_scale(file.width, file.height,
                                             tg.width, tg.height))
      ELSE IPT_open_temp_copy(file).image

AloneFile(t, c) ==
  Saved(ParOutputPath(t, c), ParResult(t, c, AloneImage(t, c)))

\* ------------------------------------------------------------------------
\* run(input_str) of the two image tools
\* ------------------------------------------------------------------------
\* input strings, as the tokens json.loads sees: a plain path, JSON objects
\* with and without the fields run reads, and JSON values that are no object
RunObjects ==
  { <<"{">> \o ip \o ar \o fc \o pcol \o <<"}">> :
      ip \in {<<>>, <<"image_path", "">>, <<"image_path", "src.png">>},
      ar \in {<<>>, <<"aspect_ratio", "landscape">>},
      fc \in {<<>>, <<"fill_canvas", "false">>},
      pcol \in {<<>>, <<"preserve_colors", "false">>} }

RunInputs ==
  {<<"src.png">>} \cup RunObjects
    \cup {<<"42">>, <<"[", "]">>, <<"null">>, <<"\"src.png\"">>}

\* json.loads(input_str): the type of the decoded value and, for an object,
\* its items; text that is not JSON raises json.JSONDecodeError
json_loads(s) ==
  IF s[1] = "{"
  THEN [type |-> "dict",
        items |-> {<<s[2 * i], s[2 * i + 1]>> : i \in 1..((Len(s) - 2) \div 2)}]
  ELSE IF s[1] = "[" THEN [type |-> "list", items |-> {}]
  ELSE IF s[1] = "42" THEN [type |-> "int", items |-> {}]
  ELSE IF s[1] = "null" THEN [type |-> "NoneType", items |-> {}]
  ELSE IF s[1] = "\"src.png\"" THEN [type |-> "str", items |-> {}]
  ELSE [type |-> "JSONDecodeError", items |-> {}]

\* input_data.get(key, default)
Get(d, key, default) ==
  IF \E kv \in d.items : kv[1] = key
  THEN (CHOOSE kv \in d.items : kv[1] = key)[2]
  ELSE default

\* the values run can return
ReturnedJson(paths) ==
  [type |-> "str", value |-> [form |-> "json.dumps", paths |-> paths,
                              message |-> ""]]
ReturnedMessage(msg) ==
  [type |-> "str", value |-> [form |-> "message", paths |-> <<>>,
                              message |-> msg]]
ReturnedNone == [type |-> "NoneType", value |-> <<>>]

MissingImagePath == "Error: Missing required field 'image_path' in JSON input"

\* run reaches the end of its body without a return statement
RunFallsThrough == ReturnedNone

\* run(input_str) up to the call of prepare_all_print_sizes
RunCall ==
  /\ pc = "idle"
  /\ run_pc = "idle"
  /\ \E input_str \in RunInputs :
       LET d == json_loads(input_str)
           starts == \/ d.type = "JSONDecodeError"
                     \/ d.type = "dict" /\ Get(d, "image_path", "") # ""
           ar == IF d.type = "dict" THEN Get(d, "aspect_ratio", "None")
                 ELSE "None"
           fc == IF d.type = "dict"
                 THEN Get(d, "fill_canvas", "true") = "true" ELSE TRUE
           pcol == IF d.type = "dict" /\ tool = IPT
                   THEN Get(d, "preserve_colors", "true") = "true" ELSE TRUE
       IN  /\ input_data' = d
           /\ IF starts
              THEN /\ op' = "prepare_all_print_sizes"
                   /\ aspect_ratio' = ar
                   /\ fill_canvas' = fc
                   /\ preserve_colors' = pcol
                   /\ todo' = Keys(PrintSizesOf(tool, ar))
                   /\ pc' = "loop"
                   /\ run_pc' = "_run"
                   /\ run_ret' = run_ret
              ELSE /\ UNCHANGED <<op, aspect_ratio, fill_canvas,
                                  preserve_colors, todo, pc>>
                   /\ run_pc' = "returned"
                   /\ run_ret' = IF d.type = "dict"
                                 THEN ReturnedMessage(MissingImagePath)
                                 ELSE RunFallsThrough
  /\ output_paths' = <<>>
  /\ steps' = <<>>
  /\ UNCHANGED <<parVars, notRun, tool, src, size_name, locals, files, ret,
                 out, prev>>

\* return json.dumps(output_paths), or the message of the outer handler
RunReturn ==
  /\ pc = "done"
  /\ run_pc = "_run"
  /\ run_ret' = IF out.kind = "list" THEN ReturnedJson(out.paths)
                ELSE ReturnedMessage("Error processing image")
  /\ run_pc' = "returned"
  /\ UNCHANGED <<parVars, notRun, tool, src, callArgs, locals, files, ret,
                 todo, output_paths, out, steps, prev, pc, input_data>>

NextRun ==
  \/ RunCall
  \/ OpenSource
  \/ ResolveSize
  \/ Upscale
  \/ PrepareCanvas
  \/ Compose
  \/ Enhance
  \/ Save
  \/ BatchNext
  \/ BatchCollect
  \/ BatchReturn
  \/ RunReturn

SpecRun == Init /\ [][NextRun]_vars

\* ------------------------------------------------------------------------
\* FileOrganizerTool
\* ------------------------------------------------------------------------
\* the content of a file: whose bytes it holds, and its size in megabytes
Content(id, mb) == [id |-> id, mb |-> mb]

\* the files the client names: two prints with the same file name in two
\* directories, a file that does not exist, a text file, a file over 50 MB
\* and a concept file; file names are <<base, extension>>
PrintA == PathOf(<<"a">>, <<"print", ".png">>)
PrintB == PathOf(<<"b">>, <<"print", ".png">>)
MissingPrint == PathOf(<<"a">>, <<"missing", ".png">>)
Notes == PathOf(<<"a">>, <<"notes", ".txt">>)
Huge == PathOf(<<"a">>, <<"huge", ".png">>)
Concept == PathOf(<<"a">>, <<"concept", ".json">>)
DefaultConcept == PathOf(<<"output">>, <<"concept_data", ".json">>)
DefaultSeo == PathOf(<<"output">>, <<"seo_data", ".json">>)

ClientDisk ==
  { [path |-> PrintA, content |-> Content("print of a", 1)],
    [path |-> PrintB, content |-> Content("print of b", 1)],
    [path |-> Notes, content |-> Content("notes", 1)],
    [path |-> Huge, content |-> Content("huge", 51)],
    [path |-> Concept, content |-> Content("concept", 1)] }

DefaultFiles ==
  { [path |-> DefaultConcept, content |-> Content("default concept", 1)],
    [path |-> DefaultSeo, content |-> Content("default seo", 1)] }

\* files on a disk d
Exists(d, path) == \E f \in d : f.path = path
ReadFile(d, path) == (CHOOSE f \in d : f.path = path).content
WriteFile(d, path, content) ==
  {f \in d : f.path # path} \cup {[path |-> path, content |-> content]}
RemoveFile(d, path) == {f \in d : f.path # path}

\* the "files" field of the input: a dict in insertion order
Entry(category, file_paths) ==
  [category |-> category, file_paths |-> file_paths]

FilesChoices ==
  { c \o p :
      c \in { <<>>, <<Entry("concept", <<>>)>>,
              <<Entry("concept", <<Concept>>)>> },
      p \in { <<>>, <<Entry("prints", <<PrintA>>)>>,
              <<Entry("prints", <<PrintA, PrintB>>)>>,
              <<Entry("prints", <<MissingPrint, Huge>>)>>,
              <<Entry("prints", <<Notes, PrintB>>)>>,
              <<Entry("other", <<PrintA>>)>> } }

HasCategory(files_, category) ==
  \E i \in DOMAIN files_ : files_[i].category = category

\* run: a critical category without files gets the default file when that
\* file exists
AddDefault(files_, category, default_path, d) ==
  IF \E i \in DOMAIN files_ :
       files_[i].category = category /\ files_[i].file_paths # <<>>
  THEN files_
  ELSE IF ~Exists(d, default_path) THEN files_
  ELSE IF HasCategory(files_, category)
  THEN [i \in DOMAIN files_ |->
          IF files_[i].category = category
          THEN Entry(category, <<default_path>>) ELSE files_[i]]
  ELSE Append(files_, Entry(category, <<default_path>>))

\* _verify_files: only the paths that exist are kept, every key is kept
verify_files(files_, d) ==
  [i \in DOMAIN files_ |->
     Entry(files_[i].category,
           SelectSeq(files_[i].file_paths, LAMBDA p : Exists(d, p)))]

\* the (category, file_path) pairs in the order the two loops of _run
\* visit them
RECURSIVE Pairs(_)
Pairs(files_) ==
  IF files_ = <<>> THEN <<>>
  ELSE [i \in DOMAIN Head(files_).file_paths |->
          [category |-> Head(files_).category,
           file_path |-> Head(files_).file_paths[i]]]
       \o Pairs(Tail(files_))

Subdirectories == {"concept", "original", "prints", "mockups", "metadata"}

\* self._allowed_extensions.get(category, [])
allowed_extensions(category) ==
  IF category \in {"concept", "metadata"} THEN {".json"}
  ELSE IF category \in {"original", "prints", "mockups"}
  THEN {".png", ".jpg", ".jpeg", ".webp"}
  ELSE {}

\* _validate_file(file_path, category)
validate_file(d, file_path, category) ==
  /\ Exists(d, file_path)
  /\ file_path.name[2] \in allowed_extensions(category)
  /\ ReadFile(d, file_path).mb <= 50

\* _create_backup: backups/<basename>_<%Y%m%d_%H%M%S>
backup_path_of(file_path, now) ==
  PathOf(<<"output", "backups">>, file_path.name \o <<"_", ToString(now)>>)

\* variant of dest_path_of: the copy is put into the listing directory
\* itself, not into the subdirectory of its category
dest_path_of_flat(file_path, category) ==
  PathOf(<<"listing_dir">>, <<category, "_">> \o file_path.name)

\* listing_dir / category / f"{category}_{base}{ext}"
dest_path_of(file_path, category) ==
  PathOf(<<"listing_dir", category>>, <<category, "_">> \o file_path.name)

\* run(input_data) up to the loop of _run: defaults, _verify_files, the
\* listing directory with its subdirectories, the empty manifest.  The keys
\* of manifest["files"] are set here for all categories at once; _run sets
\* each when its loop reaches the category, before the manifest is read.
OrgCall ==
  /\ org_pc = "idle"
  /\ \E f \in FilesChoices, cl \in BOOLEAN, bk \in BOOLEAN, vl \in BOOLEAN :
       LET with_defaults ==
             AddDefault(AddDefault(f, "concept", DefaultConcept, disk),
                        "metadata", DefaultSeo, disk)
           verified_files == verify_files(with_defaults, disk)
       IN  /\ org_args' = [files |-> f, cleanup |-> cl, backup |-> bk,
                           should_validate |-> vl]
           /\ org_todo' = Pairs(verified_files)
           /\ manifest' =
                [timestamp |-> clock, listing_name |-> "Test Listing",
                 files |-> [i \in DOMAIN verified_files |->
                              [category |-> verified_files[i].category,
                               entries |-> <<>>]],
                 backups |-> {}, validation |-> <<>>, saved |-> FALSE]
  /\ listing' = Subdirectories
  /\ files_to_delete' = <<>>
  /\ org_pc' = "loop"
  /\ UNCHANGED <<imageVars, notOrg, disk, manifest_file, deleted, org_ret>>

\* manifest["files"][category].append(entry)
AppendEntry(files_, category, entry) ==
  [i \in DOMAIN files_ |->
     IF files_[i].category = category
     THEN [files_[i] EXCEPT !.entries = Append(@, entry)]
     ELSE files_[i]]

\* variant of OrgFile: the original is removed right after it was copied,
\* whatever cleanup says
OrgFileMoving ==
  /\ org_pc = "loop"
  /\ org_todo # <<>>
  /\ LET category == Head(org_todo).category
         file_path == Head(org_todo).file_path
     IN  IF org_args.should_validate
            /\ ~validate_file(disk, file_path, category)
         THEN /\ manifest' = [manifest EXCEPT !.validation =
                                Append(@, Head(org_todo))]
              /\ UNCHANGED <<disk, files_to_delete, deleted>>
         ELSE \E backup_ok \in IF org_args.backup THEN BOOLEAN ELSE {FALSE},
                 copy_ok \in IF category \in listing THEN BOOLEAN
                             ELSE {FALSE} :
                LET backup_path == backup_path_of(file_path, clock)
                    dest_path == dest_path_of(file_path, category)
                    content == ReadFile(disk, file_path)
                    d1 == IF backup_ok
                          THEN WriteFile(disk, backup_path, content)
                          ELSE disk
                    d2 == IF copy_ok THEN WriteFile(d1, dest_path, content)
                          ELSE d1
                IN  /\ disk' = IF copy_ok THEN RemoveFile(d2, file_path)
                               ELSE d2
                    /\ deleted' = IF copy_ok
                                  THEN deleted \cup
                                         {[path |-> file_path,
                                           content |-> content]}
                                  ELSE deleted
                    /\ manifest' =
                         [manifest EXCEPT
                            !.backups = IF backup_ok
                                        THEN {b \in @ : b[1] # file_path}
                                               \cup {<<file_path,
                                                       backup_path>>}
                                        ELSE @,
                            !.files = IF copy_ok
                                      THEN AppendEntry(@, category,
                                             [original_path |-> file_path,
                                              organized_path |-> dest_path,
                                              hash |-> content.id,
                                              size |-> content.mb])
                                      ELSE @]
                    /\ files_to_delete' = files_to_delete
  /\ org_todo' = Tail(org_todo)
  /\ UNCHANGED <<imageVars, notOrg, listing, manifest_file, org_pc,
                 org_args, org_ret>>

\* one iteration of the inner loop of _run: validation, backup, copy,
\* manifest entry, files_to_delete.  _create_backup returns None when the
\* copy to the backup directory raises; a copy to the listing directory
\* that raises is logged and the file is skipped; a category that is none
\* of the five subdirectories has no directory to copy into.
OrgFile ==
  /\ org_pc = "loop"
  /\ org_todo # <<>>
  /\ LET category == Head(org_todo).category
         file_path == Head(org_todo).file_path
     IN  IF org_args.should_validate
            /\ ~validate_file(disk, file_path, category)
         THEN /\ manifest' = [manifest EXCEPT !.validation =
                                Append(@, Head(org_todo))]
              /\ UNCHANGED <<disk, files_to_delete>>
         ELSE \E backup_ok \in IF org_args.backup THEN BOOLEAN ELSE {FALSE},
                 copy_ok \in IF category \in listing THEN BOOLEAN
                             ELSE {FALSE} :
                LET backup_path == backup_path_of(file_path, clock)
                    dest_path == dest_path_of(file_path, category)
                    content == ReadFile(disk, file_path)
                    d1 == IF backup_ok
                          THEN WriteFile(disk, backup_path, content)
                          ELSE disk
                    d2 == IF copy_ok THEN WriteFile(d1, dest_path, content)
                          ELSE d1
                IN  /\ disk' = d2
                    /\ manifest' =
                         [manifest EXCEPT
                            !.backups = IF backup_ok
                                        THEN {b \in @ : b[1] # file_path}
                                               \cup {<<file_path,
                                                       backup_path>>}
                                        ELSE @,
                            !.files = IF copy_ok
                                      THEN AppendEntry(@, category,
                                             [original_path |-> file_path,
                                              organized_path |-> dest_path,
                                              hash |-> content.id,
                                              size |-> content.mb])
                                      ELSE @]
                    /\ files_to_delete' =
                         IF copy_ok /\ org_args.cleanup
                            /\ Exists(d2, file_path)
                         THEN Append(files_to_delete, file_path)
                         ELSE files_to_delete
  /\ org_todo' = Tail(org_todo)
  /\ UNCHANGED <<imageVars, notOrg, listing, manifest_file, org_pc,
                 org_args, deleted, org_ret>>

\* json.dump(manifest, f) into listing_dir / "manifest.json"
OrgSaveManifest ==
  /\ org_pc = "loop"
  /\ org_todo = <<>>
  /\ manifest_file' = [manifest EXCEPT !.saved = TRUE]
  /\ org_pc' = IF org_args.cleanup /\ files_to_delete # <<>>
               THEN "cleanup" ELSE "return"
  /\ UNCHANGED <<imageVars, notOrg, disk, listing, manifest,
                 files_to_delete, org_todo, org_args, deleted, org_ret>>

\* os.remove(file_path) for the next of files_to_delete; a failure (the
\* file is already gone) is logged
OrgDelete ==
  /\ org_pc = "cleanup"
  /\ files_to_delete # <<>>
  /\ LET file_path == Head(files_to_delete)
     IN  IF Exists(disk, file_path)
         THEN /\ disk' = RemoveFile(disk, file_path)
              /\ deleted' = deleted \cup
                              {[path |-> file_path,
                                content |-> ReadFile(disk, file_path)]}
         ELSE UNCHANGED <<disk, deleted>>
  /\ files_to_delete' = Tail(files_to_delete)
  /\ org_pc' = IF Tail(files_to_delete) = <<>> THEN "return" ELSE "cleanup"
  /\ UNCHANGED <<imageVars, notOrg, listing, manifest, manifest_file,
                 org_todo, org_args, org_ret>>

\* return str(listing_dir)
OrgReturn ==
  /\ org_pc = "return"
  /\ org_ret' = <<"output", "listing_test_listing_",
                 ToString(manifest.timestamp)>>
  /\ org_pc' = "returned"
  /\ UNCHANGED <<imageVars, notOrg, disk, listing, manifest, manifest_file,
                 files_to_delete, org_todo, org_args, deleted>>

\* a second passes while the organizer works
OrgTick ==
  /\ org_pc \in {"idle", "loop"}
  /\ clock < MaxClock
  /\ clock' = clock + 1
  /\ UNCHANGED <<seqVars, files, calls, temp, toolVars>>

InitOrg ==
  /\ ImageToolsIdle
  /\ RunIdle
  /\ OrganizerIdle
  /\ JsonIdle
  /\ MockupIdle
  /\ ReplicateIdle
  /\ disk \in {ClientDisk, ClientDisk \cup DefaultFiles}

NextOrg ==
  \/ OrgCall
  \/ OrgFile
  \/ OrgSaveManifest
  \/ OrgDelete
  \/ OrgReturn
  \/ OrgTick

SpecOrg == InitOrg /\ [][NextOrg]_vars

\* ------------------------------------------------------------------------
\* JsonSaveTool
\* ------------------------------------------------------------------------
\* Python values: kind is the type, text a scalar's literal, parts the
\* members of a container (for a dict: <<key, value>> pairs in order)
PyStr(s) == [kind |-> "str", parts |-> <<>>, text |-> s]
PyInt(n) == [kind |-> "int", parts |-> <<>>, text |-> n]
PyFloat(x) == [kind |-> "float", parts |-> <<>>, text |-> x]
PyBool(b) == [kind |-> "bool", parts |-> <<>>, text |-> b]
PyNone == [kind |-> "NoneType", parts |-> <<>>, text |-> "None"]
PyList(vs) == [kind |-> "list", parts |-> vs, text |-> ""]
PyTuple(vs) == [kind |-> "tuple", parts |-> vs, text |-> ""]
PySet(vs) == [kind |-> "set", parts |-> vs, text |-> ""]
PyDict(kvs) == [kind |-> "dict", parts |-> kvs, text |-> ""]
\* a str whose text is the JSON document doc
PyJsonText(doc) == [kind |-> "str", parts |-> <<doc>>, text |-> "json"]

\* JSON documents, as written to and read from a file
JObject(kvs) == [kind |-> "object", parts |-> kvs, text |-> ""]
JArray(ds) == [kind |-> "array", parts |-> ds, text |-> ""]
JString(s, inner) == [kind |-> "string", parts |-> inner, text |-> s]
JInteger(n) == [kind |-> "integer", parts |-> <<>>, text |-> n]
JReal(x) == [kind |-> "real", parts |-> <<>>, text |-> x]
JLiteral(w) == [kind |-> "literal", parts |-> <<>>, text |-> w]

\* json.dump can encode the value: no set, and dict keys are str, int,
\* float, bool or None
RECURSIVE Serializable(_)
Serializable(v) ==
  IF v.kind \in {"list", "tuple"}
  THEN \A i \in DOMAIN v.parts : Serializable(v.parts[i])
  ELSE IF v.kind = "dict"
  THEN \A i \in DOMAIN v.parts :
         /\ v.parts[i][1].kind \in {"str", "int", "float", "bool", "NoneType"}
         /\ Serializable(v.parts[i][2])
  ELSE v.kind # "set"

\* the JSON text of a scalar: nan is written as NaN, None as null
ScalarDoc(v) ==
  IF v.kind = "str" THEN JString(v.text, v.parts)
  ELSE IF v.kind = "int" THEN JInteger(v.text)
  ELSE IF v.kind = "float"
  THEN (IF v.text = "nan" THEN JLiteral("NaN") ELSE JReal(v.text))
  ELSE IF v.kind = "bool" THEN JLiteral(v.text)
  ELSE JLiteral("null")

\* json.dump(json_data, f, indent=2, ensure_ascii=False): lists and tuples
\* become arrays, dict keys become strings
RECURSIVE json_dump(_)
json_dump(v) ==
  IF v.kind \in {"list", "tuple"}
  THEN JArray([i \in DOMAIN v.parts |-> json_dump(v.parts[i])])
  ELSE IF v.kind = "dict"
  THEN JObject([i \in DOMAIN v.parts |->
                  <<v.parts[i][1].text, json_dump(v.parts[i][2])>>])
  ELSE ScalarDoc(v)

\* json.load(f) / json.loads(text): arrays become lists, objects dicts with
\* str keys
RECURSIVE json_load(_)
json_load(d) ==
  IF d.kind = "array"
  THEN PyList([i \in DOMAIN d.parts |-> json_load(d.parts[i])])
  ELSE IF d.kind = "object"
  THEN PyDict([i \in DOMAIN d.parts |->
                 <<PyStr(d.parts[i][1]), json_load(d.parts[i][2])>>])
  ELSE IF d.kind = "string" THEN [PyStr(d.text) EXCEPT !.parts = d.parts]
  ELSE IF d.kind = "integer" THEN PyInt(d.text)
  ELSE IF d.kind = "real" THEN PyFloat(d.text)
  ELSE IF d.text = "NaN" THEN PyFloat("nan")
  ELSE IF d.text = "null" THEN PyNone
  ELSE PyBool(d.text)

\* the value holds a float nan somewhere
RECURSIVE HasNan(_)
HasNan(v) ==
  IF v.kind \in {"list", "tuple", "set"}
  THEN \E i \in DOMAIN v.parts : HasNan(v.parts[i])
  ELSE IF v.kind = "dict"
  THEN \E i \in DOMAIN v.parts : HasNan(v.parts[i][2])
  ELSE v.kind = "float" /\ v.text = "nan"

\* a == b of Python for two separately built values: same type and members,
\* and nan is equal to nothing
PyEq(a, b) == a = b /\ ~HasNan(a)

\* dict lookup and membership by str key
HasKeyStr(d, k) == \E i \in DOMAIN d.parts : d.parts[i][1] = PyStr(k)
Item(d, k) ==
  d.parts[CHOOSE i \in DOMAIN d.parts : d.parts[i][1] = PyStr(k)][2]

\* the components of a file name, as pathlib splits it
PathParts(filename) ==
  CASE filename = "test_direct.json" -> <<"test_direct.json">>
    [] filename = "listing.json" -> <<"listing.json">>
    [] filename = "output/test_nested.json" -> <<"output", "test_nested.json">>
    [] filename = "listing_dir/metadata/listing.json"
         -> <<"listing_dir", "metadata", "listing.json">>
    [] filename = "output/output/x.json" -> <<"output", "output", "x.json">>
    [] filename = "../outside.json" -> <<"..", "outside.json">>
    [] filename = "/tmp/outside.json" -> <<"/", "tmp", "outside.json">>
    [] OTHER -> <<>>

JsonFilenames ==
  {"test_direct.json", "listing.json", "output/test_nested.json",
   "listing_dir/metadata/listing.json", "output/output/x.json",
   "../outside.json", "/tmp/outside.json", ""}

\* self._output_dir = Path(os.getcwd()) / "output"
output_dir == <<"/", "project", "output">>

\* filename.startswith("output/"), filename.replace("output/", "", 1)
StripOutput(parts) ==
  IF Len(parts) >= 2 /\ parts[1] = "output" THEN Tail(parts) ELSE parts

\* self._output_dir / filename: an absolute right operand replaces the left
JoinPath(dir, parts) ==
  IF parts # <<>> /\ parts[1] = "/" THEN parts ELSE dir \o parts

\* the file the operating system reaches through a path: ".." steps up
RECURSIVE Resolve(_)
Resolve(parts) ==
  IF parts = <<>> THEN <<>>
  ELSE LET front == Resolve(SubSeq(parts, 1, Len(parts) - 1))
           last == parts[Len(parts)]
       IN  IF last = ".."
           THEN (IF Len(front) > 1 THEN SubSeq(front, 1, Len(front) - 1)
                 ELSE front)
           ELSE Append(front, last)

\* the values passed as data
JsonValues ==
  { PyStr("Test Listing"), PyFloat("19.99"), PyNone, PyBool("true"),
    PyList(<<PyStr("test"), PyStr("json")>>),
    PyTuple(<<PyInt("1"), PyInt("2")>>),
    PyFloat("nan"),
    PyDict(<< <<PyInt("1"), PyStr("a")>> >>),
    PySet(<<PyStr("test")>>) }

JsonDicts ==
  { PyDict(<< <<PyStr("title"), v>> >>) : v \in JsonValues }
    \cup { PyDict(<<>>),
           PyDict(<< <<PyInt("1"), PyStr("Test Listing")>> >>),
           PyDict(<< <<PyStr("title"), PyStr("Test Listing")>>,
                     <<PyStr("price"), PyFloat("19.99")>>,
                     <<PyStr("tags"),
                       PyList(<<PyStr("test"), PyStr("json")>>)>> >>) }

\* JSON strings encoding the dictionaries, a JSON string encoding a list,
\* a string that is no JSON, and a value that is neither str nor dict
JsonStrings ==
  { PyJsonText(json_dump(d)) : d \in {x \in JsonDicts : Serializable(x)} }
    \cup { PyJsonText(JArray(<<JInteger("1")>>)), PyStr("not json") }

\* the single-dictionary form {data, filename}
Wrappers ==
  { PyDict(<< <<PyStr("data"), d>>, <<PyStr("filename"), PyStr(f)>> >>) :
      d \in {x \in JsonDicts : x.parts = <<>> \/ x.parts[1][2].kind
               \in {"str", "tuple", "set"}},
      f \in JsonFilenames }

JsonData == JsonDicts \cup JsonStrings \cup Wrappers \cup {PyInt("42")}

JsRaise(type, msg) == [kind |-> "error", type |-> type, message |-> msg,
                       path |-> <<>>]
JsPath(p) == [kind |-> "path", type |-> "", message |-> "", path |-> p]

\* variant of Unwrapped: the single-dictionary form is not recognised, the
\* whole dictionary is saved under the filename argument
UnwrappedNever(data, filename) ==
  [json_data |-> data, filename |-> filename]

\* if isinstance(data, dict) and "data" in data and "filename" in data:
\* the inner data and the inner filename are taken
Unwrapped(data, filename) ==
  IF data.kind = "dict" /\ HasKeyStr(data, "data")
     /\ HasKeyStr(data, "filename")
  THEN [json_data |-> Item(data, "data"),
        filename |-> Item(data, "filename").text]
  ELSE [json_data |-> data, filename |-> filename]

\* _run(data, filename)
JsonRun ==
  /\ js_pc = "idle"
  /\ \E data \in JsonData, filename \in JsonFilenames :
       LET u == Unwrapped(data, filename)
           wrapped == u.json_data # data
           parsed == ~wrapped /\ data.kind = "str"
           json_data == IF parsed /\ data.parts # <<>>
                        THEN json_load(data.parts[1]) ELSE u.json_data
           file_path == JoinPath(output_dir,
                                 StripOutput(PathParts(u.filename)))
           where == Resolve(file_path)
       IN  /\ js_args' = [data |-> data, filename |-> filename]
           /\ IF parsed /\ data.parts = <<>>
              THEN /\ js_ret' = JsRaise("ValueError",
                                        "Invalid JSON string provided")
                   /\ disk' = disk
              ELSE IF ~wrapped /\ data.kind \notin {"str", "dict"}
              THEN /\ js_ret' = JsRaise("TypeError",
                          "Data must be a JSON string or dictionary")
                   /\ disk' = disk
              ELSE IF where = output_dir
              THEN /\ js_ret' = JsRaise("RuntimeError",
                                        "Failed to save JSON data")
                   /\ disk' = disk
              ELSE IF ~Serializable(json_data)
              THEN /\ js_ret' = JsRaise("RuntimeError",
                                        "Failed to save JSON data")
                   /\ disk' = WriteFile(disk, where, JLiteral(""))
              ELSE /\ js_ret' = JsPath(file_path)
                   /\ disk' = WriteFile(disk, where, json_dump(json_data))
           /\ js_pc' = IF js_ret'.kind = "path" THEN "returned"
                       ELSE "raised"
  /\ UNCHANGED <<imageVars, notJson, js_loaded>>

\* the client reads the file at the returned path back: json.load(f)
JsonReadBack ==
  /\ js_pc = "returned"
  /\ js_loaded' = json_load(ReadFile(disk, Resolve(js_ret.path)))
  /\ js_pc' = "loaded"
  /\ UNCHANGED <<imageVars, notJson, disk, js_args, js_ret>>

InitJson ==
  /\ ImageToolsIdle
  /\ OtherToolsIdle

NextJson ==
  \/ JsonRun
  \/ JsonReadBack

SpecJson == InitJson /\ [][NextJson]_vars

\* ------------------------------------------------------------------------
\* DynamicMockupTool
\* ------------------------------------------------------------------------
\* the keys of _portrait_templates, _landscape_templates and _templates
get_templates_for_aspect_ratio(ar) ==
  IF ar = "portrait" THEN <<"1_p", "2_p", "3_p", "4_p">>
  ELSE IF ar = "landscape" THEN <<"1_l", "2_l", "3_l", "4_l">>
  ELSE <<"frame-mockup", "wall-art-mockup", "canvas-print-mockup",
         "poster-mockup", "living-room-mockup">>

\* the numbered template a descriptive name stands for, "" when none
Numbered(name, ar) ==
  LET i == IF name \in {"landscape-frame-mockup", "portrait-frame-mockup"}
           THEN 1
           ELSE IF name \in {"landscape-wall-art-mockup",
                             "portrait-wall-art-mockup"} THEN 2
           ELSE IF name \in {"landscape-canvas-print-mockup",
                             "portrait-canvas-print-mockup"} THEN 3
           ELSE IF name \in {"landscape-poster-mockup",
                             "portrait-poster-mockup"} THEN 4
           ELSE 0
      own == IF ar = "landscape"
             THEN name \in {"landscape-frame-mockup",
                            "landscape-wall-art-mockup",
                            "landscape-canvas-print-mockup",
                            "landscape-poster-mockup"}
             ELSE name \in {"portrait-frame-mockup",
                            "portrait-wall-art-mockup",
                            "portrait-canvas-print-mockup",
                            "portrait-poster-mockup"}
  IN  IF own THEN get_templates_for_aspect_ratio(ar)[i] ELSE ""

\* select_templates(template_names, aspect_ratio); None is <<"None">>
RECURSIVE Selected(_, _, _)
Selected(template_names, ar, acc) ==
  IF template_names = <<>> THEN acc
  ELSE LET name == Head(template_names)
           templates == get_templates_for_aspect_ratio(ar)
           key == IF ar \in {"landscape", "portrait"}
                  THEN Numbered(name, ar)
                  ELSE IF \E i \in DOMAIN templates : templates[i] = name
                  THEN name ELSE ""
       IN  Selected(Tail(template_names), ar,
                    IF key = "" \/ \E i \in DOMAIN acc : acc[i] = key
                    THEN acc ELSE Append(acc, key))

select_templates(template_names, ar) ==
  IF template_names = <<"None">> THEN get_templates_for_aspect_ratio(ar)
  ELSE IF Selected(template_names, ar, <<>>) = <<>>
  THEN get_templates_for_aspect_ratio(ar)
  ELSE Selected(template_names, ar, <<>>)

TemplateNameChoices ==
  { <<"None">>, <<"frame-mockup", "poster-mockup">>,
    <<"portrait-frame-mockup", "landscape-poster-mockup">>, <<"1_l">> }

\* how the API answers the render request of one template, and for a 200
\* whether the answer has data.export_path and the download succeeds
RenderOutcomes ==
  { [status |-> 200, export_path |-> TRUE, download |-> 200],
    [status |-> 200, export_path |-> TRUE, download |-> 404],
    [status |-> 200, export_path |-> FALSE, download |-> 0],
    [status |-> 400, export_path |-> FALSE, download |-> 0],
    [status |-> 401, export_path |-> FALSE, download |-> 0],
    [status |-> 422, export_path |-> FALSE, download |-> 0],
    [status |-> 429, export_path |-> FALSE, download |-> 0],
    [status |-> 500, export_path |-> FALSE, download |-> 0] }

\* _handle_error_response(response, template_name) with a template name:
\* the exception it raises, NoError when it returns None
handle_error_response(status) ==
  IF status = 401
  THEN Err("ValueError", <<"Unauthorized - Invalid API key">>)
  ELSE IF status = 422
  THEN Err("ValueError", <<"Invalid mockup UUID: ">>)
  ELSE IF status = 429
  THEN Err("RuntimeError", <<"Rate limit exceeded (300 calls per minute)">>)
  ELSE IF status = 400 THEN NoError
  ELSE IF status >= 500
  THEN Err("RuntimeError",
           <<"Server error occurred. Please try again later.">>)
  ELSE Err("RuntimeError", <<"API request failed">>)

\* mockup_names = ["1", "3", "4", "5"]
mockup_names == <<"1", "3", "4", "5">>

\* self._output_dir / f"{name}.png"
MockupPath(name) == <<"output", "mockups", name, ".png">>

\* _run(image_path, template_names, aspect_ratio) up to the loop.  The
\* request data (image URL, scale) do not decide the answers, which are
\* drawn freely for every template.
DmCall ==
  /\ dm_pc = "idle"
  /\ \E ar \in {"None", "portrait", "landscape"},
        template_names \in TemplateNameChoices,
        additional \in {{}, {"2"}, {"2", "6"}} :
       /\ dm_args' = [aspect_ratio |-> ar, template_names |-> template_names,
                      additional |-> additional]
       /\ dm_todo' = select_templates(template_names, ar)
  /\ mockup_paths' = <<>>
  /\ successful_templates' = 0
  /\ mockup_current_index' = 0
  /\ dm_log' = <<>>
  /\ dm_pc' = "loop"
  /\ UNCHANGED <<imageVars, notDm, disk, dm_ret>>

\* one iteration of the loop over templates_to_use: render request, error
\* handling, download, saving.  Every exception raised inside the try block
\* (by _handle_error_response, by mockup_names[...]) is caught by "except
\* Exception" and the loop goes on.
DmTemplate ==
  /\ dm_pc = "loop"
  /\ dm_todo # <<>>
  /\ \E o \in RenderOutcomes :
       LET template_name == Head(dm_todo)
           received == o.status = 200 /\ o.export_path /\ o.download = 200
           named == mockup_current_index + 1 <= Len(mockup_names)
           output_path == MockupPath(mockup_names[mockup_current_index + 1])
           caught == IF o.status # 200 THEN handle_error_response(o.status)
                     ELSE IF received /\ ~named
                     THEN Err("IndexError", <<"list index out of range">>)
                     ELSE NoError
       IN  /\ dm_log' = Append(dm_log,
                               [template |-> template_name, outcome |-> o,
                                caught |-> caught,
                                path |-> IF received /\ named
                                         THEN output_path ELSE NoPath])
           /\ IF received /\ named
              THEN /\ disk' = WriteFile(disk, output_path, template_name)
                   /\ mockup_paths' = Append(mockup_paths, output_path)
                   /\ successful_templates' = successful_templates + 1
                   /\ mockup_current_index' = mockup_current_index + 1
              ELSE UNCHANGED <<disk, mockup_paths, successful_templates,
                               mockup_current_index>>
  /\ dm_todo' = Tail(dm_todo)
  /\ UNCHANGED <<imageVars, notDm, dm_pc, dm_args, dm_ret>>

\* after the loop: 2.png and 6.png of the input directory are copied and
\* appended; an empty mockup_paths raises RuntimeError, otherwise
\* mockup_paths is returned
DmFinish ==
  /\ dm_pc = "loop"
  /\ dm_todo = <<>>
  /\ LET copied == SelectSeq(<<"2", "6">>,
                             LAMBDA n : n \in dm_args.additional)
         all_paths == mockup_paths
                        \o [i \in DOMAIN copied |-> MockupPath(copied[i])]
     IN  /\ mockup_paths' = all_paths
         /\ disk' = disk \cup {[path |-> MockupPath(copied[i]),
                                content |-> "additional"] :
                                 i \in DOMAIN copied}
         /\ dm_ret' = IF all_paths = <<>>
                      THEN OutError(Err("RuntimeError",
                             <<"Failed to generate any mockups. ",
                               "Please check your API key and template UUIDs.">>))
                      ELSE OutList(all_paths)
  /\ dm_pc' = "done"
  /\ UNCHANGED <<imageVars, notDm, dm_args, dm_todo, successful_templates,
                 mockup_current_index, dm_log>>

InitMockup ==
  /\ ImageToolsIdle
  /\ OtherToolsIdle

NextMockup ==
  \/ DmCall
  \/ DmTemplate
  \/ DmFinish

SpecMockup == InitMockup /\ [][NextMockup]_vars

\* ------------------------------------------------------------------------
\* ReplicateTool
\* ------------------------------------------------------------------------
\* what the user types at the prompt
RawAnswers == {"yes", "y", " Yes ", "no", "N", "", "maybe"}

\* user_response = input(...).strip().lower()
StripLower(a) ==
  IF a = " Yes " THEN "yes" ELSE IF a = "N" THEN "n" ELSE a

\* self._output_dir / f"replicate_generated_{timestamp}.webp"
GeneratedPath(timestamp) ==
  <<"output", "images", "replicate_generated_", ToString(timestamp), ".webp">>

\* _run(prompt, aspect_ratio) up to the first call of _generate_image
RpCall ==
  /\ rp_pc = "idle"
  /\ rp_pc' = "generating"
  /\ UNCHANGED <<imageVars, notRp, disk, rp_image_path, rp_n, rp_log, rp_ret>>

\* image_path = self._generate_image(prompt, aspect_ratio): the image is
\* saved under the current time in seconds, or RuntimeError is raised and
\* leaves _run
RpGenerate ==
  /\ rp_pc = "generating"
  /\ \E generated \in BOOLEAN, timestamp \in clock..MaxClock :
       /\ clock' = timestamp
       /\ IF generated
          THEN /\ disk' = WriteFile(disk, GeneratedPath(timestamp), rp_n + 1)
               /\ rp_n' = rp_n + 1
               /\ rp_image_path' = GeneratedPath(timestamp)
               /\ rp_pc' = "asking"
               /\ rp_ret' = rp_ret
          ELSE /\ rp_ret' = OutError(Err("RuntimeError",
                                         <<"Failed to generate image: ">>))
               /\ rp_pc' = "done"
               /\ UNCHANGED <<disk, rp_n, rp_image_path>>
  /\ UNCHANGED <<seqVars, files, calls, temp, notRp, rp_log>>

\* variant of RpAnswer: a rejected image is left where it is
RpAnswerKeeping ==
  /\ rp_pc = "asking"
  /\ Len(rp_log) < MaxAnswers
  /\ \E answer \in RawAnswers :
       LET user_response == StripLower(answer)
       IN  /\ rp_log' = Append(rp_log,
                               [answer |-> answer, path |-> rp_image_path,
                                remove_failed |-> FALSE])
           /\ disk' = disk
           /\ IF user_response \in {"yes", "y"}
              THEN /\ rp_ret' = OutPath(rp_image_path)
                   /\ rp_pc' = "done"
              ELSE IF user_response \in {"no", "n"}
              THEN /\ rp_ret' = rp_ret
                   /\ rp_pc' = "generating"
              ELSE /\ rp_ret' = rp_ret
                   /\ rp_pc' = "asking"
  /\ UNCHANGED <<imageVars, notRp, rp_image_path, rp_n>>

\* one iteration of the while loop up to the return, the next call of
\* _generate_image or the next question; os.remove may raise, which is
\* only printed
RpAnswer ==
  /\ rp_pc = "asking"
  /\ Len(rp_log) < MaxAnswers
  /\ \E answer \in RawAnswers, remove_ok \in BOOLEAN :
       LET user_response == StripLower(answer)
           rejected == user_response \in {"no", "n"}
           removes == rejected /\ Exists(disk, rp_image_path) /\ remove_ok
       IN  /\ rejected \/ remove_ok
           /\ rp_log' = Append(rp_log,
                               [answer |-> answer, path |-> rp_image_path,
                                remove_failed |->
                                  rejected /\ Exists(disk, rp_image_path)
                                    /\ ~remove_ok])
           /\ disk' = IF removes THEN RemoveFile(disk, rp_image_path)
                      ELSE disk
           /\ IF user_response \in {"yes", "y"}
              THEN /\ rp_ret' = OutPath(rp_image_path)
                   /\ rp_pc' = "done"
              ELSE IF rejected
              THEN /\ rp_ret' = rp_ret
                   /\ rp_pc' = "generating"
              ELSE /\ rp_ret' = rp_ret
                   /\ rp_pc' = "asking"
  /\ UNCHANGED <<imageVars, notRp, rp_image_path, rp_n>>

InitReplicate ==
  /\ ImageToolsIdle
  /\ OtherToolsIdle

NextReplicate ==
  \/ RpCall
  \/ RpGenerate
  \/ RpAnswer

SpecReplicate == InitReplicate /\ [][NextReplicate]_vars

\* ------------------------------------------------------------------------
\* Properties
\* ------------------------------------------------------------------------
\* the catalog the current call resolves sizes in
Catalog == PrintSizesOf(tool, aspect_ratio)

\* the default output path of the current tool for a size
OutputPathOf(sn) ==
  IF tool = IPT THEN IPT_output_path(sn)
  ELSE PPT_output_path(sn, aspect_ratio, fill_canvas)

FileAt(p) == CHOOSE f \in files : f.path = p
IsSaved(p) == \E f \in files : f.path = p

\* C1: when prepare_image_for_print has succeeded (alone or inside the
\* batch), the file saved at the returned path has exactly the pixel width
\* and height the selected catalog declares for the requested size.
C1_SavedDimensionsEqualCatalog ==
  (pc = "returned" /\ ret.kind = "path") =>
    /\ HasKey(Catalog, size_name)
    /\ IsSaved(ret.path)
    /\ FileAt(ret.path).width = Lookup(Catalog, size_name).width
    /\ FileAt(ret.path).height = Lookup(Catalog, size_name).height

\* a letterboxed landscape print whose pasted image is smaller than the
\* canvas has been saved
C1_Witness ==
  /\ pc = "returned"
  /\ ret.kind = "path"
  /\ ~fill_canvas
  /\ aspect_ratio = "landscape"
  /\ result.pasted # <<result.width, result.height>>

\* the paths prepare_all_print_sizes has to return: in catalog order, the
\* output path of every size whose file was written by this call
RECURSIVE SavedPathsOf(_)
SavedPathsOf(names) ==
  IF names = <<>> THEN <<>>
  ELSE (IF IsSaved(OutputPathOf(Head(names)))
        THEN <<OutputPathOf(Head(names))>> ELSE <<>>)
       \o SavedPathsOf(Tail(names))

\* C2: prepare_all_print_sizes does not raise because of a failing size; it
\* returns, in catalog order, exactly the output paths of the sizes that
\* were prepared successfully.
C2_BatchSkipsFailedSizes ==
  (op = "prepare_all_print_sizes" /\ pc = "done") =>
    /\ out.kind = "list"
    /\ out.paths = SavedPathsOf(Keys(Catalog))

\* a batch in which the first size failed and a later size succeeded
C2_Witness ==
  /\ op = "prepare_all_print_sizes"
  /\ pc = "done"
  /\ ~IsSaved(OutputPathOf(Keys(Catalog)[1]))
  /\ IsSaved(OutputPathOf(Keys(Catalog)[3]))
  /\ Len(out.paths) = 3

\* C3 as stated: when every size failed, prepare_all_print_sizes fails with
\* a NoSizesProcessedError instead of returning an empty list.
C3_EmptyBatchRaises ==
  (op = "prepare_all_print_sizes" /\ pc = "done" /\ files = {}) =>
    /\ out.kind = "error"
    /\ out.error.type = "NoSizesProcessedError"

\* C3 amended: when every size failed, prepare_all_print_sizes returns the
\* empty list and raises nothing.
C3_EmptyBatchReturnsEmptyList ==
  (op = "prepare_all_print_sizes" /\ pc = "done" /\ files = {}) =>
    out = OutList(<<>>)

\* a batch on a readable source in which the writing of every size failed
C3_Witness ==
  /\ op = "prepare_all_print_sizes"
  /\ pc = "done"
  /\ files = {}
  /\ src.exists /\ src.readable
  /\ ret.kind = "error"
  /\ ret.error.type = "OSError"

\* C4 as stated: upscale_image on a path to a file that does not exist does
\* not raise and returns a placeholder of one fixed size (the size the tool
\* creates its fallback image with), whatever the scale argument is.
C4_MissingSourceGivesFixedPlaceholder ==
  (op = "upscale_image" /\ pc = "done" /\ ~src.exists) =>
    /\ out.kind = "image"
    /\ <<out.image.width, out.image.height>> =
         IF tool = IPT THEN <<FallbackWidth, FallbackHeight>>
         ELSE <<1024, 1024>>

\* whether the call gets past loading the source image
SourceLoads ==
  IF tool = IPT THEN IPT_open_temp_copy(src).ok
  ELSE PPT_upscale_image(src, DefaultScale).ok

\* the set of the parts of an error message
Parts(message) == {message[i] : i \in 1..Len(message)}

\* C5 as stated: a size name absent from the selected catalog makes
\* prepare_image_for_print fail with an error that names the unknown size
\* and lists the valid size names.
C5_InvalidSizeErrorListsValidNames ==
  (pc = "returned" /\ ~HasKey(Catalog, size_name) /\ SourceLoads) =>
    /\ ret.kind = "error"
    /\ size_name \in Parts(ret.error.message)
    /\ \A i \in 1..Len(Catalog) :
         Catalog[i].name \in Parts(ret.error.message)

\* C5 amended: a size name absent from the selected catalog always makes
\* prepare_image_for_print fail; when the source image could be loaded the
\* error is ValueError("Invalid print size: <size_name>"), which names the
\* unknown size and lists no valid size name.
C5_InvalidSizeErrorNamesSize ==
  (pc = "returned" /\ ~HasKey(Catalog, size_name)) =>
    /\ ret.kind = "error"
    /\ SourceLoads =>
         /\ ret.error.type = "ValueError"
         /\ ret.error.message = <<"Invalid print size: ", size_name>>
         /\ \A i \in 1..Len(Catalog) :
              Catalog[i].name \notin Parts(ret.error.message)

\* a landscape name was requested under the portrait catalog and rejected
C5_Witness ==
  /\ pc = "returned"
  /\ size_name = "6x4"
  /\ aspect_ratio \in {"None", "portrait"}
  /\ ret.kind = "error"
  /\ ret.error.type = "ValueError"

\* the image prepare_image_for_print of ImageProcessingTool opened
Opened == IPT_open_temp_copy(src).image

\* s is the floor of max(target_width / w, target_height / h)
IsFloorOfMaxRatio(s, w, h) ==
  /\ s * w <= target.width \/ s * h <= target.height
  /\ (s + 1) * w > target.width
  /\ (s + 1) * h > target.height

\* s is a nearest integer of max(target_width / w, target_height / h)
IsNearestOfMaxRatio(s, w, h) ==
  IF target.width * h >= target.height * w
  THEN /\ 2 * s * w - 2 * target.width <= w
       /\ 2 * target.width - 2 * s * w <= w
  ELSE /\ 2 * s * h - 2 * target.height <= h
       /\ 2 * target.height - 2 * s * h <= h

AfterUpscaleIPT ==
  tool = IPT /\ pc \in {"canvas", "compose", "enhance", "save"}

C7_Scenario ==
  /\ tool = IPT
  /\ op = "prepare_image_for_print"
  /\ src = File(TRUE, TRUE, 600, 800)
  /\ size_name = "8x10"
  /\ aspect_ratio = "portrait"
  /\ fill_canvas

\* C7: for a 600x800 source, size "8x10", portrait and fill_canvas=true,
\* ImageProcessingTool uses scale 4, upscales to 2400x3200, keeps the full
\* width, removes 100 rows at the top and 100 at the bottom, and the output
\* is exactly 2400x3000.
C7_ConcreteScenario ==
  (C7_Scenario /\ pc \in {"enhance", "save", "returned", "done"}) =>
    /\ scale_arg = 4
    /\ image = Img(2400, 3200, FALSE)
    /\ result.scaled = <<2400, 3200>>
    /\ result.crop = <<0, 100, 2400, 3100>>
    /\ <<result.width, result.height>> = <<2400, 3000>>
    /\ result.pasted = <<2400, 3000>> /\ result.at = <<0, 0>>
    /\ ret.kind = "path" =>
         /\ IsSaved(ret.path)
         /\ FileAt(ret.path).width = 2400
         /\ FileAt(ret.path).height = 3000

\* the scenario ran to its end and the path was returned
C7_Witness ==
  /\ C7_Scenario
  /\ pc = "done"
  /\ out.kind = "path"

\* fill mode was composited (the locals image, canvas, result are set)
Filled ==
  fill_canvas /\ pc \in {"enhance", "save"}

Abs(n) == IF n < 0 THEN 0 - n ELSE n

\* C8: in fill mode, an image whose aspect w/h is strictly greater than the
\* canvas aspect keeps its full height and is cropped in width; otherwise
\* (equal aspects included) it keeps its full width and is cropped in
\* height; the amounts removed on the two opposite sides differ by at most
\* one pixel.
C8_FillCropIsCentered ==
  Filled =>
    IF image.width * canvas.height > canvas.width * image.height
    THEN /\ result.crop[2] = 0
         /\ result.crop[4] = result.scaled[2]
         /\ Abs(result.crop[1] - (result.scaled[1] - result.crop[3])) <= 1
         /\ result.crop[3] - result.crop[1] <= result.scaled[1]
    ELSE /\ result.crop[1] = 0
         /\ result.crop[3] = result.scaled[1]
         /\ Abs(result.crop[2] - (result.scaled[2] - result.crop[4])) <= 1

\* a wider image was cropped on the left and on the right
C8_Witness ==
  /\ Filled
  /\ image.width * canvas.height > canvas.width * image.height
  /\ result.crop[1] > 0
  /\ result.crop[3] < result.scaled[1]

\* C9 as stated: in fill mode the crop box lies inside the (scaled) image,
\* the pasted image has exactly the canvas size and is pasted at (0, 0), so
\* every canvas pixel is covered by picture content.
C9_FillCoversCanvas ==
  Filled =>
    /\ 0 <= result.crop[1] /\ result.crop[1] < result.crop[3]
    /\ result.crop[3] <= result.scaled[1]
    /\ 0 <= result.crop[2] /\ result.crop[2] < result.crop[4]
    /\ result.crop[4] <= result.scaled[2]
    /\ result.pasted = <<canvas.width, canvas.height>>
    /\ result.at = <<0, 0>>

\* letterbox mode was composited
Letterboxed ==
  ~fill_canvas /\ pc \in {"enhance", "save"}

\* C10: in letterbox mode the whole image is used (no crop), scaled with
\* its aspect ratio kept up to rounding, pasted inside the canvas with the
\* margins on opposite sides differing by at most one pixel, and the
\* canvas background is white (255, 255, 255).
C10_LetterboxIsCentered ==
  Letterboxed =>
    /\ result.crop = <<0, 0, image.width, image.height>>
    /\ result.pasted[1] >= 1 /\ result.pasted[1] <= canvas.width
    /\ result.pasted[2] >= 1 /\ result.pasted[2] <= canvas.height
    /\ result.at[1] >= 0 /\ result.at[2] >= 0
    /\ Abs(result.at[1]
           - (canvas.width - result.pasted[1] - result.at[1])) <= 1
    /\ Abs(result.at[2]
           - (canvas.height - result.pasted[2] - result.at[2])) <= 1
    /\ \/ Abs(result.pasted[1] * image.height
              - result.pasted[2] * image.width) < 2 * image.width
       \/ Abs(result.pasted[1] * image.height
              - result.pasted[2] * image.width) < 2 * image.height
    /\ result.background = <<255, 255, 255>>
    /\ <<result.width, result.height>> = <<canvas.width, canvas.height>>

\* a letterboxed image with an odd total margin, so that the two margins
\* differ by one pixel
C10_Witness ==
  /\ Letterboxed
  /\ result.at[1] > 0
  /\ (canvas.width - result.pasted[1]) % 2 = 1

\* the tables of the tool the calls are made on
PortraitOf(t) ==
  IF t = IPT THEN PORTRAIT_PRINT_SIZES ELSE PPT_PORTRAIT_PRINT_SIZES
LandscapeOf(t) ==
  IF t = IPT THEN LANDSCAPE_PRINT_SIZES ELSE PPT_LANDSCAPE_PRINT_SIZES

\* C11: get_print_sizes_for_aspect_ratio returns the landscape catalog
\* exactly when its argument is "landscape" and the portrait catalog for
\* every other value; every size resolved under "landscape" (catalog entry,
\* target, canvas) has width > height, every size resolved otherwise has
\* height > width.
C11_OrientationSelectsCatalog ==
  IF aspect_ratio = "landscape"
  THEN /\ Catalog = LandscapeOf(tool)
       /\ Catalog # PortraitOf(tool)
       /\ \A i \in 1..Len(Catalog) : Catalog[i].width > Catalog[i].height
       /\ target # NoTarget => target.width > target.height
       /\ canvas # NoCanvas => canvas.width > canvas.height
  ELSE /\ Catalog = PortraitOf(tool)
       /\ Catalog # LandscapeOf(tool)
       /\ \A i \in 1..Len(Catalog) : Catalog[i].height > Catalog[i].width
       /\ target # NoTarget => target.height > target.width
       /\ canvas # NoCanvas => canvas.height > canvas.width

\* a canvas was prepared under an orientation that is neither "landscape",
\* "portrait" nor None
C11_Witness ==
  /\ aspect_ratio = "square"
  /\ canvas # NoCanvas
  /\ canvas.height > canvas.width

\* C12 as stated: concurrent prepare_image_for_print calls share no mutable
\* state, so in every interleaving each call returns what it returns when
\* run alone (its output path) and writes the file it writes when run
\* alone (the print of its own source at its own size).
C12_ConcurrentCallsAsIfAlone ==
  \A p \in DOMAIN calls :
    calls[p].pc = "done" =>
      /\ calls[p].out = OutPath(ParOutputPath(tool, calls[p]))
      /\ calls[p].wrote = AloneFile(tool, calls[p])

\* the second of two identical calls has ended
SecondCallDone ==
  prev.n = 1 /\ op = "prepare_image_for_print" /\ pc = "done"

\* C13: calling prepare_image_for_print twice with identical arguments
\* returns the same output path both times and leaves the output file with
\* the same content after the second call as after the first; a call that
\* was rejected is rejected the same way again.
C13_RepeatedCallIsIdempotent ==
  SecondCallDone =>
    /\ (prev.out.kind = "path" /\ out.kind = "path") =>
         /\ out.path = prev.out.path
         /\ out = prev.out
         /\ files = prev.files
         /\ Cardinality(files) = 1
         /\ FileAt(out.path).content = result
    /\ (prev.out.kind = "error" /\ prev.out.error.type # "OSError") =>
         /\ out = prev.out
         /\ files = prev.files

\* a letterbox print was prepared twice by PrintPreparationTool
C13_Witness ==
  /\ SecondCallDone
  /\ tool = PPT
  /\ ~fill_canvas
  /\ prev.out.kind = "path"
  /\ out.kind = "path"
  /\ prev.tie # ""

\* the set of the steps of the current call, and the position of the first
\* occurrence of a step (0 when it did not happen)
StepSet == {steps[i] : i \in 1..Len(steps)}
Pos(s) ==
  IF s \in StepSet
  THEN CHOOSE i \in 1..Len(steps) :
         steps[i] = s /\ \A j \in 1..(i - 1) : steps[j] # s
  ELSE 0
Count(s) == Cardinality({i \in 1..Len(steps) : steps[i] = s})

\* both happened => a happened first
InOrder(a, b) == (Pos(a) # 0 /\ Pos(b) # 0) => Pos(a) < Pos(b)
\* b happened => a happened before it
Requires(b, a) == Pos(b) # 0 => (Pos(a) # 0 /\ Pos(a) < Pos(b))

\* a state of a prepare_image_for_print call (single or inside the batch)
InPrepare ==
  op \in {"prepare_image_for_print", "prepare_all_print_sizes"}
  /\ pc \notin {"idle", "loop"}

\* the step in which the tool resolves (orientation, size_name)
ResolveStep ==
  IF tool = IPT THEN "get_print_sizes_for_aspect_ratio"
  ELSE "prepare_print_canvas"

\* the call was rejected because of its size name
RejectedSize ==
  ret.kind = "error" /\ ret.error = InvalidSize(size_name)

\* a returned path refers to a file that is saved
ReturnedPathIsSaved ==
  /\ ret.kind = "path" => ("save" \in StepSet /\ IsSaved(ret.path))
  /\ out.kind = "path" => IsSaved(out.path)
  /\ out.kind = "list" =>
       \A i \in 1..Len(out.paths) : IsSaved(out.paths[i])

\* C14 as stated: both tools resolve the canvas size first, then upscale,
\* then composite, then save, then return the path; an unknown size name
\* is rejected before any upscaling; a returned path refers to a saved file.
C14_ResolveUpscaleCompositeSave ==
  InPrepare =>
    /\ Requires("upscale_image", ResolveStep)
    /\ Requires("center_image_on_canvas", ResolveStep)
    /\ InOrder("upscale_image", "center_image_on_canvas")
    /\ Requires("save", "center_image_on_canvas")
    /\ RejectedSize => "upscale_image" \notin StepSet
    /\ ReturnedPathIsSaved

\* C14 amended: ImageProcessingTool resolves the size, then upscales (when
\* the source is smaller), then composites, then saves, and rejects an
\* unknown size name before any upscaling; PrintPreparationTool upscales
\* first, then resolves the size, then composites, then saves, so it
\* rejects an unknown size name only after the upscale; in both tools a
\* returned path refers to a file that is saved.
C14_OrderOfStepsPerTool ==
  InPrepare =>
    /\ Requires("center_image_on_canvas", ResolveStep)
    /\ InOrder("upscale_image", "center_image_on_canvas")
    /\ Requires("save", "center_image_on_canvas")
    /\ Count("save") <= 1
    /\ IF tool = IPT
       THEN /\ Requires("upscale_image", ResolveStep)
            /\ RejectedSize => "upscale_image" \notin StepSet
       ELSE /\ steps # <<>> => steps[1] = "upscale_image"
            /\ Requires(ResolveStep, "upscale_image")
            /\ RejectedSize => Pos("upscale_image") = 1
    /\ ReturnedPathIsSaved

\* PrintPreparationTool rejected an unknown size name after it had upscaled
\* the source
C14_Witness ==
  /\ tool = PPT
  /\ pc = "returned"
  /\ RejectedSize
  /\ image.width = DefaultScale * src.width
  /\ "upscale_image" \in StepSet

\* C15: in ImageProcessingTool.prepare_image_for_print the Enhancer
\* (enhance_image_for_print) is applied exactly once per call, to the
\* composited canvas-sized image, and never before compositing.
C15_EnhancedOnceAfterCompositing ==
  (InPrepare /\ tool = IPT) =>
    /\ Count("enhance_image_for_print") <= 1
    /\ Requires("enhance_image_for_print", "center_image_on_canvas")
    /\ Pos("enhance_image_for_print") # 0 =>
         /\ Pos("enhance_image_for_print") = Pos("center_image_on_canvas") + 1
         /\ <<result.width, result.height>> = <<canvas.width, canvas.height>>
         /\ result.enhance =
              IPT_enhance_image_for_print(NoComposite, preserve_colors).enhance
    /\ Pos("enhance_image_for_print") = 0 => result.enhance = <<>>
    /\ "save" \in StepSet => Count("enhance_image_for_print") = 1
    /\ \A f \in files :
         f.content.enhance \in
           {IPT_enhance_image_for_print(NoComposite, b).enhance : b \in BOOLEAN}

\* a source that was upscaled (and filtered by the upscaler) was composited,
\* enhanced and saved
C15_Witness ==
  /\ tool = IPT
  /\ pc = "returned"
  /\ ret.kind = "path"
  /\ "ImageEnhance.Sharpness" \in StepSet
  /\ Count("enhance_image_for_print") = 1

\* the call substituted the placeholder for the source
PlaceholderSubstituted == "_create_fallback_image" \in StepSet

C17_SavedFilesDeclare300Dpi ==
  \A f \in files :
    /\ f.dpi = <<300, 300>>
    /\ Len(f.pHYs) = 2
    /\ f.pHYs[1] = f.pHYs[2]
    /\ Abs(f.pHYs[1] * 254 - 300 * 10000) <= 127

\* a batch saved at least three landscape letterbox prints
C17_Witness ==
  /\ Cardinality(files) >= 3
  /\ aspect_ratio = "landscape"
  /\ ~fill_canvas

Inches(name) ==
  CASE name = "4x6" -> <<4, 6>>     [] name = "5x7" -> <<5, 7>>
    [] name = "8x10" -> <<8, 10>>   [] name = "11x14" -> <<11, 14>>
    [] name = "16x20" -> <<16, 20>> [] name = "6x4" -> <<6, 4>>
    [] name = "7x5" -> <<7, 5>>     [] name = "10x8" -> <<10, 8>>
    [] name = "14x11" -> <<14, 11>> [] name = "20x16" -> <<20, 16>>
    [] OTHER -> <<9, 9>>

\* every entry of a table is 300 pixels per inch of its name
At300PerInch(print_sizes) ==
  \A i \in 1..Len(print_sizes) :
    /\ print_sizes[i].width = 300 * Inches(print_sizes[i].name)[1]
    /\ print_sizes[i].height = 300 * Inches(print_sizes[i].name)[2]

\* landscape is portrait with the name parts and width / height swapped
IsSwapOf(landscape, portrait) ==
  /\ Len(landscape) = Len(portrait)
  /\ \A i \in 1..Len(portrait) :
       /\ Inches(landscape[i].name) =
            <<Inches(portrait[i].name)[2], Inches(portrait[i].name)[1]>>
       /\ landscape[i].name # portrait[i].name
       /\ landscape[i].width = portrait[i].height
       /\ landscape[i].height = portrait[i].width

\* C19: every catalog entry "AxB" has width 300*A and height 300*B; the
\* landscape catalog is the portrait catalog with the name parts and width,
\* height swapped; portrait is 4x6:(1200,1800), 5x7:(1500,2100),
\* 8x10:(2400,3000), 11x14:(3300,4200), 16x20:(4800,6000); the tables of
\* ImageProcessingTool and PrintPreparationTool are identical; a canvas
\* prepared for a size has 300 pixels per inch of the size name.
C19_CatalogIs300PixelsPerInch ==
  /\ \A t \in Tools :
       /\ At300PerInch(PortraitOf(t))
       /\ At300PerInch(LandscapeOf(t))
       /\ IsSwapOf(LandscapeOf(t), PortraitOf(t))
       /\ Keys(PortraitOf(t)) = <<"4x6", "5x7", "8x10", "11x14", "16x20">>
       /\ [i \in 1..5 |-> <<PortraitOf(t)[i].width, PortraitOf(t)[i].height>>]
            = << <<1200, 1800>>, <<1500, 2100>>, <<2400, 3000>>,
                 <<3300, 4200>>, <<4800, 6000>> >>
  /\ PortraitOf(IPT) = PortraitOf(PPT)
  /\ LandscapeOf(IPT) = LandscapeOf(PPT)
  /\ canvas # NoCanvas =>
       /\ canvas.width = 300 * Inches(size_name)[1]
       /\ canvas.height = 300 * Inches(size_name)[2]
  /\ target # NoTarget =>
       /\ target.width = 300 * Inches(size_name)[1]
       /\ target.height = 300 * Inches(size_name)[2]

\* PrintPreparationTool prepared the canvas of the landscape size "10x8"
C19_Witness ==
  /\ tool = PPT
  /\ size_name = "10x8"
  /\ canvas = Canvas(3000, 2400)

\* C20: enhance_image_for_print applies one sharpening pass first; with
\* preserve_colors it then applies only a contrast factor of 1.05 (no
\* saturation, no brightness change); without it, contrast 1.2, then
\* saturation 1.1, then brightness 1.05 (factors in hundredths).
C20_EnhanceProfile ==
  (tool = IPT /\ pc = "save") =>
    /\ Len(result.enhance) >= 2
    /\ result.enhance[1][1] = "sharpen"
    /\ \A i \in 2..Len(result.enhance) : result.enhance[i][1] # "sharpen"
    /\ IF preserve_colors
       THEN /\ Len(result.enhance) = 2
            /\ result.enhance[2] = <<"contrast", 105>>
       ELSE /\ Len(result.enhance) = 4
            /\ result.enhance[2] = <<"contrast", 120>>
            /\ result.enhance[3] = <<"color", 110>>
            /\ result.enhance[4] = <<"brightness", 105>>

\* an image was enhanced with preserve_colors = true
C20_Witness ==
  /\ tool = IPT
  /\ pc = "save"
  /\ preserve_colors
  /\ result.enhance # <<>>

\* C21 as stated: for every input string run returns a string: the JSON
\* list of output paths, the missing-field message for an object without
\* image_path (and then no processing was started), or an error message;
\* also for input that is valid JSON but no object.
C21_RunAlwaysReturnsString ==
  run_pc = "returned" =>
    /\ run_ret.type = "str"
    /\ (input_data.type = "dict" /\ Get(input_data, "image_path", "") = "")
         => /\ run_ret = ReturnedMessage(MissingImagePath)
            /\ op = "none"
            /\ files = {}
    /\ (op = "prepare_all_print_sizes" /\ out.kind = "list")
         => run_ret = ReturnedJson(out.paths)

\* the (category, path) pairs of the input whose file exists and passes
\* validation (every file passes when validation is switched off)
SuppliedValid ==
  { Pairs(org_args.files)[i] : i \in
      { j \in DOMAIN Pairs(org_args.files) :
          LET pr == Pairs(org_args.files)[j]
          IN  /\ Exists(ClientDisk, pr.file_path)
              /\ org_args.should_validate
                   => validate_file(ClientDisk, pr.file_path, pr.category) } }

\* the original paths manifest.json lists under a category
ListedPaths(category) ==
  UNION { { manifest_file.files[i].entries[k].original_path :
              k \in DOMAIN manifest_file.files[i].entries } :
          i \in {j \in DOMAIN manifest_file.files :
                   manifest_file.files[j].category = category} }

\* a file of the category subdirectory of the listing directory is the
\* copy made for file_path
CopiedInto(category, file_path) ==
  \E f \in disk :
    /\ f.path.dir = <<"listing_dir", category>>
    /\ f.path.name = <<category, "_">> \o file_path.name

\* the parts of C22 about the directory and the manifest
ListingIsComplete ==
  /\ org_ret = <<"output", "listing_test_listing_",
                 ToString(manifest_file.timestamp)>>
  /\ listing = {"concept", "original", "prints", "mockups", "metadata"}
  /\ manifest_file.saved
  /\ manifest_file.listing_name = "Test Listing"
  /\ \A i \in DOMAIN org_args.files :
       HasCategory(manifest_file.files, org_args.files[i].category)

BackupRecorded(file_path) ==
  /\ manifest_file.saved
  /\ \E b \in manifest_file.backups : b[1] = file_path

C29_CleanupLosesNoData ==
  org_pc = "returned" =>
    \A d \in deleted :
      /\ \E i \in DOMAIN manifest_file.files :
           d.path \in ListedPaths(manifest_file.files[i].category)
      /\ \E f \in disk :
           /\ f.path.dir[1] = "listing_dir"
           /\ f.content = d.content

\* the call used the single-dictionary form
IsWrapper(data) ==
  data.kind = "dict" /\ HasKeyStr(data, "data") /\ HasKeyStr(data, "filename")

\* the data the caller wants saved: the inner data of the single-dictionary
\* form, the dictionary a JSON string encodes, or the dictionary itself
PassedData ==
  IF IsWrapper(js_args.data) THEN Item(js_args.data, "data")
  ELSE IF js_args.data.kind = "str" THEN json_load(js_args.data.parts[1])
  ELSE js_args.data

\* the filename the caller wants used
PassedFilename ==
  IF IsWrapper(js_args.data) THEN Item(js_args.data, "filename").text
  ELSE js_args.filename

\* values JSON has a type for: str, int, finite float, bool, None, list,
\* and dict with str keys
RECURSIVE JsonNative(_)
JsonNative(v) ==
  IF v.kind = "list"
  THEN \A i \in DOMAIN v.parts : JsonNative(v.parts[i])
  ELSE IF v.kind = "dict"
  THEN \A i \in DOMAIN v.parts :
         v.parts[i][1].kind = "str" /\ JsonNative(v.parts[i][2])
  ELSE /\ v.kind \in {"str", "int", "float", "bool", "NoneType"}
       /\ ~(v.kind = "float" /\ v.text = "nan")

\* the returned path names an existing file, under the wanted filename
SavedUnderFilename ==
  /\ Exists(disk, Resolve(js_ret.path))
  /\ js_ret.path = JoinPath(output_dir, StripOutput(PathParts(PassedFilename)))

\* C24 as stated: the file at the returned path exists and parses back to
\* exactly the data that was passed, for every dictionary or JSON string
\* encoding one; with the single-dictionary form the inner data is saved
\* under the inner filename.
C24_SavedDataRoundTrips ==
  js_pc = "loaded" =>
    /\ SavedUnderFilename
    /\ PyEq(js_loaded, PassedData)

\* C24 amended: the file at the returned path exists, under the inner
\* filename for the single-dictionary form, and parses back to the JSON
\* image of the data: equal to the data when it is made of str, int, finite
\* float, bool, None, lists and dicts with str keys only; tuples come back
\* as lists, other dict keys as strings, and a nan compares unequal.
C24_SavedDataRoundTripsForJsonValues ==
  js_pc = "loaded" =>
    /\ SavedUnderFilename
    /\ js_loaded = json_load(json_dump(PassedData))
    /\ JsonNative(PassedData) => PyEq(js_loaded, PassedData)
    /\ PyEq(js_loaded, PassedData) => JsonNative(PassedData)

\* a single-dictionary call was saved and read back equal to its inner data
C24_Witness ==
  /\ js_pc = "loaded"
  /\ IsWrapper(js_args.data)
  /\ PassedData.parts # <<>>
  /\ JsonNative(PassedData)
  /\ PyEq(js_loaded, PassedData)
  /\ PassedFilename = "output/test_nested.json"

\* the path is below the output directory of the tool
InsideOutputDir(p) ==
  /\ Len(p) > Len(output_dir)
  /\ SubSeq(p, 1, Len(output_dir)) = output_dir

\* C25 as stated: for every filename the file _run writes lies inside the
\* output directory, directly or in a subdirectory; a filename with a
\* leading "output/" is saved at <output_dir>/<rest>, not at
\* <output_dir>/output/<rest>.
C25_SavedInsideOutputDir ==
  /\ \A f \in disk : InsideOutputDir(f.path)
  /\ (js_pc \in {"returned", "loaded"}
      /\ Len(PathParts(PassedFilename)) >= 2
      /\ PathParts(PassedFilename)[1] = "output")
       => js_ret.path = output_dir \o Tail(PathParts(PassedFilename))

\* the render requests that were answered with an API error status which
\* _handle_error_response turns into an exception
ErrorAnswers ==
  { i \in DOMAIN dm_log : dm_log[i].outcome.status \in {401, 422, 429, 500} }

\* C26 as stated: when a render request of DynamicMockupTool._run is
\* answered with an API error status, _run raises the exception of that
\* status: ValueError for 401 and 422, RuntimeError "Rate limit exceeded
\* ..." for 429, RuntimeError "Server error occurred. Please try again
\* later." for a status of 500 or more.
C26_RunRaisesStatusSpecificError ==
  (dm_pc = "done" /\ ErrorAnswers # {}) =>
    \E i \in ErrorAnswers :
      /\ dm_ret.kind = "error"
      /\ dm_ret.error = handle_error_response(dm_log[i].outcome.status)

\* the templates whose render request and download both succeeded
Succeeded ==
  { i \in DOMAIN dm_log :
      /\ dm_log[i].outcome.status = 200
      /\ dm_log[i].outcome.export_path
      /\ dm_log[i].outcome.download = 200 }

\* C27 as stated: _run returns exactly one saved mockup path per template
\* whose render request and download both succeeded and nothing for the
\* templates that failed, and raises RuntimeError when no template
\* succeeded, whatever the template set.
C27_OnePathPerSucceededTemplate ==
  dm_pc = "done" =>
    IF Succeeded = {}
    THEN dm_ret.kind = "error" /\ dm_ret.error.type = "RuntimeError"
    ELSE /\ dm_ret.kind = "list"
         /\ Len(dm_ret.paths) = Cardinality(Succeeded)
         /\ \A i \in Succeeded :
              /\ dm_log[i].path # NoPath
              /\ \E k \in DOMAIN dm_ret.paths :
                   dm_ret.paths[k] = dm_log[i].path
              /\ Exists(disk, dm_log[i].path)
              /\ ReadFile(disk, dm_log[i].path) = dm_log[i].template
         /\ \A i, j \in Succeeded :
              dm_log[i].path = dm_log[j].path => i = j


\* C28 as stated: after the upscale step of
\* ImageProcessingTool.prepare_image_for_print the image handed to the
\* compositor is at least as wide and as high as the target canvas,
\* whatever the size of the source that was opened (the integer factor
\* used is never smaller than the required ratio).
C28_UpscaledImageCoversTarget ==
  (AfterUpscaleIPT /\ src.exists /\ src.readable) =>
    /\ image.width >= target.width
    /\ image.height >= target.height


\* the step is an answer of the user whose normalised text is in the set
Answered(texts) ==
  /\ Len(rp_log') = Len(rp_log) + 1
  /\ StripLower(rp_log'[Len(rp_log')].answer) \in texts

\* _run returned a path only after yes/y, and it is the path of the image
\* generated last, which is on disk
ReturnedAfterApproval ==
  (rp_pc = "done" /\ rp_ret.kind = "path") =>
    /\ rp_log # <<>>
    /\ StripLower(rp_log[Len(rp_log)].answer) \in {"yes", "y"}
    /\ rp_ret.path = rp_image_path
    /\ Exists(disk, rp_image_path)
    /\ ReadFile(disk, rp_image_path) = rp_n

\* an answer of yes/y ends _run at once with the current image_path
ApprovalReturns ==
  Answered({"yes", "y"}) =>
    /\ rp_pc' = "done"
    /\ rp_ret' = OutPath(rp_image_path)
    /\ disk' = disk
    /\ rp_n' = rp_n

\* any answer other than yes/y/no/n generates and deletes nothing and the
\* question is asked again
OtherAnswerAsksAgain ==
  (Answered(RawAnswers \ {"yes", "y", "no", "n"})) =>
    /\ rp_pc' = "asking"
    /\ disk' = disk
    /\ rp_n' = rp_n
    /\ rp_image_path' = rp_image_path
    /\ rp_ret' = rp_ret

\* images are generated only when _run starts and after an answer of no/n
GeneratedOnlyAfterRejection ==
  rp_n' # rp_n =>
    /\ rp_pc = "generating"
    /\ rp_log # <<>> => StripLower(rp_log[Len(rp_log)].answer) \in {"no", "n"}

\* C30 as stated: _run returns only after yes/y, with the path of the
\* image generated last; on no/n the rejected image file is removed before
\* a new image is generated; any other answer generates and deletes
\* nothing and the question is asked again; an answer of yes ends _run.
C30_RejectedImageAlwaysRemoved ==
  /\ []ReturnedAfterApproval
  /\ [][ApprovalReturns]_vars
  /\ [][OtherAnswerAsksAgain]_vars
  /\ [][GeneratedOnlyAfterRejection]_vars
  /\ [][Answered({"no", "n"}) =>
          /\ ~Exists(disk', rp_image_path)
          /\ rp_n' = rp_n
          /\ rp_pc' = "generating"]_vars

\* C30 amended: as stated, except that the rejected image file is removed
\* before the new image is generated unless os.remove fails; then the file
\* stays and the new image is generated all the same.
C30_RejectedImageRemovedUnlessRemoveFails ==
  /\ []ReturnedAfterApproval
  /\ [][ApprovalReturns]_vars
  /\ [][OtherAnswerAsksAgain]_vars
  /\ [][GeneratedOnlyAfterRejection]_vars
  /\ [][Answered({"no", "n"}) =>
          /\ Exists(disk', rp_image_path)
               <=> rp_log'[Len(rp_log')].remove_failed
          /\ Exists(disk', rp_image_path) => disk' = disk
          /\ rp_n' = rp_n
          /\ rp_pc' = "generating"]_vars

\* the user gave an answer that is neither yes nor no, rejected an image,
\* which was removed, and approved the next one, which _run returned
C30_Witness ==
  /\ rp_pc = "done"
  /\ rp_ret.kind = "path"
  /\ rp_n = 2
  /\ \E i, j \in DOMAIN rp_log :
       /\ StripLower(rp_log[i].answer) \in {"no", "n"}
       /\ ~rp_log[i].remove_failed
       /\ StripLower(rp_log[j].answer) \notin {"yes", "y", "no", "n"}

====
